---------------------------- MODULE Spec2Model ----------------------------
(***************************************************************************)
(* Model of the workflow orchestration engine (src/main.py) and of the     *)
(* output extraction pipeline (src/tools/code_extractor.py).               *)
(*                                                                         *)
(* Text is a sequence of atoms.  An atom is a TLA+ string standing for a   *)
(* run of characters of the Python string: a single character for the      *)
(* characters the regular expressions and string methods of the source     *)
(* single out (quotes, backtick, newline, blank, '#', '/', '\', '(', ')',  *)
(* '=', ','), and a whole word otherwise (write_file, file_path, content,  *)
(* python, app, .py, ...).  Words hold none of the single-character atoms  *)
(* and no word is a proper part of another, so matching on atoms and       *)
(* matching on characters agree.                                           *)
(***************************************************************************)
EXTENDS Naturals, Integers, Sequences, FiniteSets, TLC

DQ == "\""
SQ == "'"
\* the backtick character (TLA+ strings cannot hold it)
BT == "BACKTICK"
NL == "\n"
SP == " "
BS == "\\"
SL == "/"

(***************************************************************************)
(* Python str methods, on sequences of atoms.                              *)
(***************************************************************************)
\* str.isspace for one atom: the characters \s and str.strip() remove
WS == {SP, NL}

Min(a, b) == IF a < b THEN a ELSE b

StartsWith(s, p) == Len(s) >= Len(p) /\ SubSeq(s, 1, Len(p)) = p

EndsWith(s, p) == Len(s) >= Len(p) /\ SubSeq(s, Len(s) - Len(p) + 1, Len(s)) = p

MinOf(S) == CHOOSE x \in S : \A y \in S : x <= y
MaxOf(S) == CHOOSE x \in S : \A y \in S : y <= x

\* str.strip(): from the first to the last atom that is not whitespace
Strip(s) ==
  LET keep == {i \in 1..Len(s) : s[i] \notin WS} IN
  IF keep = {} THEN <<>> ELSE SubSeq(s, MinOf(keep), MaxOf(keep))

\* str.replace(old, new): left to right, non-overlapping
RECURSIVE Replace(_, _, _)
Replace(s, old, new) ==
  IF s = <<>> THEN <<>>
  ELSE IF StartsWith(s, old)
       THEN new \o Replace(SubSeq(s, Len(old) + 1, Len(s)), old, new)
       ELSE <<Head(s)>> \o Replace(Tail(s), old, new)

\* str.split(sep) for a one-atom separator: the pieces between the
\* separators, always at least one piece
Split(s, sep) ==
  LET at == {i \in 1..Len(s) : s[i] = sep}
      cut(k) == IF k = 0 THEN 0
                ELSE IF k > Cardinality(at) THEN Len(s) + 1
                ELSE CHOOSE i \in at : Cardinality({j \in at : j < i}) = k - 1
  IN [k \in 1..(Cardinality(at) + 1) |-> SubSeq(s, cut(k - 1) + 1, cut(k) - 1)]

\* sep.join(pieces)
RECURSIVE Join(_, _)
Join(pieces, sep) ==
  IF pieces = <<>> THEN <<>>
  ELSE IF Len(pieces) = 1 THEN pieces[1]
       ELSE pieces[1] \o <<sep>> \o Join(Tail(pieces), sep)

(***************************************************************************)
(* Python re: a pattern is a sequence of elements, each a character class  *)
(* with a quantifier ("1", "*", "+" greedy; "*?", "+?" lazy) or a group    *)
(* parenthesis.  The backtracking engine tries the start positions from    *)
(* left to right and, at each quantified class, the counts in the order of *)
(* its preference (greedy: most first; lazy: fewest first); the match it   *)
(* returns is the first one in that order.  A thread is one way of         *)
(* matching a prefix of the pattern: key lists the start position and the  *)
(* rank of the count chosen at each element, so the engine's order is the  *)
(* lexicographic order of the keys.                                        *)
(***************************************************************************)
Cls(S, q) == [k |-> "cls", neg |-> FALSE, set |-> S, q |-> q, g |-> 0]
NotCls(S, q) == [k |-> "cls", neg |-> TRUE, set |-> S, q |-> q, g |-> 0]
Lit(a) == Cls({a}, "1")
Open(g) == [k |-> "open", neg |-> FALSE, set |-> {}, q |-> "1", g |-> g]
Close(g) == [k |-> "close", neg |-> FALSE, set |-> {}, q |-> "1", g |-> g]

Lits(s) == [i \in 1..Len(s) |-> Lit(s[i])]

InCls(el, a) == IF el.neg THEN a \notin el.set ELSE a \in el.set

\* number of consecutive atoms of s from position i on that are in the class
RunLen(el, s, i) ==
  LET stop == {j \in i..Len(s) : ~InCls(el, s[j])} IN
  IF stop = {} THEN Len(s) + 1 - i ELSE MinOf(stop) - i

NoCaps == [g \in 1..2 |-> [s |-> 1, e |-> 1]]
NoMatch == [ok |-> FALSE, start |-> 0, end |-> 0, caps |-> NoCaps]

\* the threads after one more element of the pattern
StepEl(el, s, T) ==
  IF el.k = "open" THEN {[t EXCEPT !.caps[el.g].s = t.pos] : t \in T}
  ELSE IF el.k = "close" THEN {[t EXCEPT !.caps[el.g].e = t.pos] : t \in T}
  ELSE UNION { LET run == RunLen(el, s, t.pos)
                   lo == IF el.q \in {"1", "+", "+?"} THEN 1 ELSE 0
                   hi == IF el.q = "1" THEN Min(1, run) ELSE run
               IN { [key |-> Append(t.key, IF el.q \in {"*?", "+?"} THEN n - lo ELSE hi - n),
                     pos |-> t.pos + n,
                     caps |-> t.caps] : n \in lo..hi }
             : t \in T }

\* the threads after the elements lo..hi of the pattern, taken in order (the
\* range is halved to keep the evaluation shallow)
RECURSIVE RunPattern(_, _, _, _, _)
RunPattern(pat, lo, hi, s, T) ==
  IF T = {} \/ lo > hi THEN T
  ELSE IF lo = hi THEN StepEl(pat[lo], s, T)
  ELSE LET mid == (lo + hi) \div 2
           T1 == RunPattern(pat, lo, mid, s, T)
       IN IF T1 = {} THEN {} ELSE RunPattern(pat, mid + 1, hi, s, T1)

\* the keys of the threads of one run have the same length
KeyLess(a, b) == \E i \in 1..Len(a) : a[i] < b[i] /\ \A j \in 1..(i - 1) : a[j] = b[j]

\* re.search from position pos: the first match in the engine's order
Search(pat, s, pos) ==
  LET T0 == {[key |-> <<p>>, pos |-> p, caps |-> NoCaps] : p \in pos..(Len(s) + 1)}
      T == RunPattern(pat, 1, Len(pat), s, T0)
  IN IF T = {} THEN NoMatch
     ELSE LET t == CHOOSE x \in T : \A y \in T : y = x \/ KeyLess(x.key, y.key) IN
          [ok |-> TRUE, start |-> t.key[1], end |-> t.pos, caps |-> t.caps]

\* re.finditer: the successive non-overlapping matches, left to right
RECURSIVE FindIter(_, _, _)
FindIter(pat, s, pos) ==
  LET m == Search(pat, s, pos) IN
  IF ~m.ok THEN <<>>
  ELSE <<m>> \o FindIter(pat, s, IF m.end > m.start THEN m.end ELSE m.end + 1)

\* match.group(g)
Group(s, m, g) == SubSeq(s, m.caps[g].s, m.caps[g].e - 1)

(***************************************************************************)
(* CodeExtractor: the protected files and the three extraction methods.    *)
(* A candidate is [file_path, content], the two arguments of a _write_file *)
(* call; each method yields its candidates in the order it makes the calls.*)
(***************************************************************************)
PROTECTED_FILES ==
  { <<"main", ".py">>,
    <<"agents", SL, "base_agent", ".py">>,
    <<"agents", SL, "__init__", ".py">>,
    <<"tools", SL, "__init__", ".py">>,
    <<"tools", SL, "code_extractor", ".py">>,
    <<"tools", SL, "simple_tools", ".py">>,
    <<"tools", SL, "mcp_tool_wrapper", ".py">>,
    <<"config", SL, "agents", ".yaml">>,
    <<"config", SL, "models", ".yaml">>,
    <<"config", SL, "settings", ".yaml">>,
    <<".env">>,
    <<"requirements", ".txt">> }

WSs == Cls(WS, "*")
Quote == Cls({DQ, SQ}, "1")
Fence == <<BT, BT, BT>>

\* write_file\s*\(\s*file_path\s*=\s*["\']([^"\']+)["\']\s*,\s*content\s*=\s*
DeclHead ==
  <<Lit("write_file"), WSs, Lit("("), WSs, Lit("file_path"), WSs, Lit("="), WSs,
    Quote, Open(1), NotCls({DQ, SQ}, "+"), Close(1), Quote, WSs, Lit(","), WSs,
    Lit("content"), WSs, Lit("="), WSs>>

\* ..."""(.*?)"""\s*\)   (re.DOTALL: the dot matches every character)
Pattern1 ==
  DeclHead \o <<Lit(DQ), Lit(DQ), Lit(DQ), Open(2), NotCls({}, "*?"), Close(2),
                Lit(DQ), Lit(DQ), Lit(DQ), WSs, Lit(")")>>

\* ...["\'](.+?)["\']\s*\)
Pattern2 ==
  DeclHead \o <<Quote, Open(2), NotCls({}, "+?"), Close(2), Quote, WSs, Lit(")")>>

\* ```python\s*\n\s*#\s*([^\n]+\.py)\s*\n(.*?)```
BlockPattern ==
  Lits(Fence) \o
  <<Lit("python"), WSs, Lit(NL), WSs, Lit("#"), WSs,
    Open(1), NotCls({NL}, "+"), Lit(".py"), Close(1), WSs, Lit(NL),
    Open(2), NotCls({}, "*?"), Close(2)>> \o Lits(Fence)

\* [`\(]([^`\)]+\.py)[`\)]
FilenamePattern ==
  <<Cls({BT, "("}, "1"), Open(1), NotCls({BT, ")"}, "+"), Lit(".py"), Close(1),
    Cls({BT, ")"}, "1")>>

_clean_content(content0) ==
  LET c1 == Strip(content0)
      c2 == Replace(c1, <<BS, DQ>>, <<DQ>>)
      c3 == Replace(c2, <<BS, SQ>>, <<SQ>>)
  IN IF StartsWith(c3, Fence)
     THEN LET lines0 == Split(c3, NL)
              lines1 == IF StartsWith(lines0[1], Fence) THEN Tail(lines0) ELSE lines0
              lines2 == IF lines1 # <<>> /\ Strip(lines1[Len(lines1)]) = Fence
                        THEN SubSeq(lines1, 1, Len(lines1) - 1) ELSE lines1
          IN Join(lines2, NL)
     ELSE c3

RECURSIVE CallCandidates(_, _)
CallCandidates(output, ms) ==
  IF ms = <<>> THEN <<>>
  ELSE <<[file_path |-> Strip(Group(output, Head(ms), 1)),
          content |-> _clean_content(Strip(Group(output, Head(ms), 2)))]>>
       \o CallCandidates(output, Tail(ms))

\* for pattern in patterns: for match in re.finditer(pattern, output)
_extract_write_file_calls(output) ==
  CallCandidates(output, FindIter(Pattern1, output, 1))
  \o CallCandidates(output, FindIter(Pattern2, output, 1))

RECURSIVE BlockCandidates(_, _)
BlockCandidates(output, ms) ==
  IF ms = <<>> THEN <<>>
  ELSE <<[file_path |-> Strip(Group(output, Head(ms), 1)),
          content |-> Strip(Group(output, Head(ms), 2))]>>
       \o BlockCandidates(output, Tail(ms))

_extract_code_blocks_with_paths(output) ==
  BlockCandidates(output, FindIter(BlockPattern, output, 1))

IsHeader(line) ==
  StartsWith(Strip(line), <<"#", "#", "#", "#">>) \/ StartsWith(Strip(line), <<"#", "#", "#">>)

\* a scan that takes the line it starts at
ScanFence_first(lines, j, closing) == j

\* the while loops over j and code_end: the first line from j on that is a
\* fence start (a closing fence when closing), or Len(lines) + 1
ScanFence(lines, j, closing) ==
  LET hits == {n \in j..Len(lines) :
                 IF closing THEN Strip(lines[n]) = Fence
                 ELSE StartsWith(Strip(lines[n]), Fence)}
  IN IF hits = {} THEN MaxOf({j, Len(lines) + 1}) ELSE MinOf(hits)

\* the body of the outer while loop at line i (lines are numbered from 1):
\* the candidate it writes, if any, and the next value of i
SectionStep(lines, i) ==
  LET line == lines[i]
      m == Search(FilenamePattern, line, 1)
  IN IF IsHeader(line) /\ m.ok
     THEN LET j == ScanFence(lines, i + 1, FALSE) IN
          IF j <= Len(lines)
          THEN LET code_start == j + 1
                   code_end == ScanFence(lines, code_start, TRUE)
               IN [next |-> code_end,
                   cands |-> IF code_end <= Len(lines)
                             THEN <<[file_path |-> Group(line, m, 1),
                                     content |-> Join(SubSeq(lines, code_start, code_end - 1), NL)]>>
                             ELSE <<>>]
          ELSE [next |-> i + 1, cands |-> <<>>]
     ELSE [next |-> i + 1, cands |-> <<>>]

RECURSIVE SectionLoop(_, _)
SectionLoop(lines, i) ==
  IF i > Len(lines) THEN <<>>
  ELSE LET st == SectionStep(lines, i) IN st.cands \o SectionLoop(lines, st.next)

_extract_file_sections(output) == SectionLoop(Split(output, NL), 1)

\* the _write_file calls of extract_and_execute, in the order they are made
Pool(agent_output) ==
  _extract_write_file_calls(agent_output)
  \o _extract_code_blocks_with_paths(agent_output)
  \o _extract_file_sections(agent_output)

(***************************************************************************)
(* pathlib and the file system (POSIX, no symbolic links).  A location is  *)
(* the sequence of names from the file system root; a file system maps the *)
(* existing locations to a directory or to a file with its content.        *)
(***************************************************************************)
\* the working directory of the process: the project root
Cwd == << <<"proj">> >>

DirEntry == [kind |-> "dir", content |-> <<>>]
FileEntry(content) == [kind |-> "file", content |-> content]

RECURSIVE DropDots(_)
DropDots(comps) ==
  IF comps = <<>> THEN <<>>
  ELSE IF Head(comps) \in {<<>>, <<".">>}
       THEN DropDots(Tail(comps))
       ELSE <<Head(comps)>> \o DropDots(Tail(comps))

\* Path(file_path): empty and '.' components are dropped, '..' is kept
Path(file_path) ==
  [abs |-> StartsWith(file_path, <<SL>>), parts |-> DropDots(Split(file_path, SL))]

\* str(path)
PathStr(path) ==
  IF path.parts = <<>> THEN (IF path.abs THEN <<SL>> ELSE <<".">>)
  ELSE (IF path.abs THEN <<SL>> ELSE <<>>) \o Join(path.parts, SL)

\* path.parent
Parent(path) ==
  IF path.parts = <<>> THEN path
  ELSE [path EXCEPT !.parts = SubSeq(path.parts, 1, Len(path.parts) - 1)]

\* the kernel's path walk: every name is looked up in an existing directory
RECURSIVE Walk(_, _, _)
Walk(fs, loc, parts) ==
  IF parts = <<>> THEN [err |-> "", loc |-> loc]
  ELSE IF loc \notin DOMAIN fs THEN [err |-> "FileNotFoundError", loc |-> loc]
  ELSE IF fs[loc].kind # "dir" THEN [err |-> "NotADirectoryError", loc |-> loc]
  ELSE Walk(fs,
            IF Head(parts) = <<"..">>
            THEN (IF loc = <<>> THEN loc ELSE SubSeq(loc, 1, Len(loc) - 1))
            ELSE Append(loc, Head(parts)),
            Tail(parts))

Resolve(fs, path) == Walk(fs, IF path.abs THEN <<>> ELSE Cwd, path.parts)

\* an existence check that always finds the file
Exists_always(fs, path) == TRUE

\* an existence check that never finds the file
Exists_never(fs, path) == FALSE

\* path.exists(): the errors of the walk are swallowed
Exists(fs, path) ==
  LET r == Resolve(fs, path) IN r.err = "" /\ r.loc \in DOMAIN fs

IsDir(fs, path) ==
  LET r == Resolve(fs, path) IN r.err = "" /\ r.loc \in DOMAIN fs /\ fs[r.loc].kind = "dir"

\* os.mkdir(path)
OsMkdir(fs, path) ==
  LET r == Resolve(fs, path) IN
  IF r.err # "" THEN [err |-> r.err, fs |-> fs]
  ELSE IF r.loc \in DOMAIN fs THEN [err |-> "FileExistsError", fs |-> fs]
  ELSE [err |-> "", fs |-> (r.loc :> DirEntry) @@ fs]

\* the second attempt of Path.mkdir, after the parents were made
MkdirAgain(fs, path) ==
  LET r == OsMkdir(fs, path) IN
  IF r.err \in {"", "FileNotFoundError"} THEN r
  ELSE IF IsDir(fs, path) THEN [err |-> "", fs |-> fs] ELSE r

\* Path.mkdir(parents=True, exist_ok=True)
RECURSIVE Mkdir(_, _)
Mkdir(fs, path) ==
  LET r == OsMkdir(fs, path) IN
  IF r.err = "" THEN r
  ELSE IF r.err = "FileNotFoundError"
       THEN IF Parent(path) = path THEN r
            ELSE LET up == Mkdir(fs, Parent(path)) IN
                 IF up.err # "" THEN up ELSE MkdirAgain(up.fs, path)
       ELSE IF IsDir(fs, path) THEN [err |-> "", fs |-> fs] ELSE r

\* a file opened for appending instead: the old content stays
Written_append(old, content) == old \o content

\* what a file opened with mode 'w' holds after f.write(content): the mode
\* truncates, the old content is gone
Written(old, content) == content

\* with open(path, 'w', encoding='utf-8') as f: f.write(content)
OpenWrite(fs, path, content) ==
  LET r == Resolve(fs, path) IN
  IF r.err # "" THEN [err |-> r.err, fs |-> fs]
  ELSE IF r.loc \in DOMAIN fs /\ fs[r.loc].kind = "dir"
       THEN [err |-> "IsADirectoryError", fs |-> fs]
       ELSE LET old == IF r.loc \in DOMAIN fs THEN fs[r.loc].content ELSE <<>> IN
            [err |-> "", fs |-> [l \in DOMAIN fs \cup {r.loc} |->
                                   IF l = r.loc THEN FileEntry(Written(old, content))
                                   ELSE fs[l]]]

\* open(path, 'w'): the file is made, or cut to length 0, when it is opened
Truncated(old) == <<>>

\* a write that lands behind what the file holds
Flushed_append(old, content) == old \o content

\* f.write(content) and the close at the end of the with block: the buffer is
\* written at offset 0 of the open file, over what the file holds by then
Flushed(old, content) == content \o SubSeq(old, Len(content) + 1, Len(old))

\* open(path, 'w', encoding='utf-8') alone
OpenTrunc(fs, path) ==
  LET r == Resolve(fs, path) IN
  IF r.err # "" THEN [err |-> r.err, fs |-> fs, loc |-> r.loc]
  ELSE IF r.loc \in DOMAIN fs /\ fs[r.loc].kind = "dir"
       THEN [err |-> "IsADirectoryError", fs |-> fs, loc |-> r.loc]
       ELSE LET old == IF r.loc \in DOMAIN fs THEN fs[r.loc].content ELSE <<>> IN
            [err |-> "", loc |-> r.loc,
             fs |-> (r.loc :> FileEntry(Truncated(old))) @@ fs]

\* the write through the open file at loc
FlushAt(fs, loc, content) ==
  [fs EXCEPT ![loc] = FileEntry(Flushed(@.content, content))]

(***************************************************************************)
(* CodeExtractor._write_file on the extractor state                        *)
(* [fs, files_created, files_modified, errors].                            *)
(***************************************************************************)
\* the guard with the membership test alone, without the suffix test
IsProtected_exact(file_path) ==
  Replace(file_path, <<BS>>, <<SL>>) \in PROTECTED_FILES

\* a guard that matches whole path components only
IsProtected_component(file_path) ==
  LET normalized_path == Replace(file_path, <<BS>>, <<SL>>) IN
  \/ normalized_path \in PROTECTED_FILES
  \/ \E pf \in PROTECTED_FILES : EndsWith(normalized_path, <<SL>> \o pf)

IsProtected(file_path) ==
  LET normalized_path == Replace(file_path, <<BS>>, <<SL>>) IN
  \/ normalized_path \in PROTECTED_FILES
  \/ \E pf \in PROTECTED_FILES : EndsWith(normalized_path, pf)

ProtectedMsg(file_path) == <<"Skipping protected file: ">> \o file_path

WriteErrorMsg(file_path, e) == <<"Error writing ">> \o file_path \o <<": ", e>>

\* an except clause that swallows the error without recording it
OnWriteError_silent(st, fs, file_path, e) == [st EXCEPT !.fs = fs]

\* an except clause that records the error twice
OnWriteError_twice(st, fs, file_path, e) ==
  [st EXCEPT !.fs = fs,
             !.errors = Append(Append(@, WriteErrorMsg(file_path, e)), WriteErrorMsg(file_path, e))]

\* the except clause of _write_file: the error is recorded, nothing is raised
OnWriteError(st, fs, file_path, e) ==
  [st EXCEPT !.fs = fs, !.errors = Append(@, WriteErrorMsg(file_path, e))]

_write_file(st, file_path, content) ==
  IF IsProtected(file_path)
  THEN [st EXCEPT !.errors = Append(@, ProtectedMsg(file_path))]
  ELSE LET path == Path(file_path)
           file_existed == Exists(st.fs, path)
           made == Mkdir(st.fs, Parent(path))
       IN IF made.err # "" THEN OnWriteError(st, made.fs, file_path, made.err)
          ELSE LET wr == OpenWrite(made.fs, path, content)
               IN IF wr.err # "" THEN OnWriteError(st, wr.fs, file_path, wr.err)
                  ELSE IF file_existed
                       THEN [st EXCEPT !.fs = wr.fs,
                                       !.files_modified = Append(@, PathStr(path))]
                       ELSE [st EXCEPT !.fs = wr.fs,
                                       !.files_created = Append(@, PathStr(path))]

EmptyLists(fs) ==
  [fs |-> fs, files_created |-> <<>>, files_modified |-> <<>>, errors |-> <<>>]

RECURSIVE WriteAll(_, _)
WriteAll(st, cands) ==
  IF cands = <<>> THEN st
  ELSE WriteAll(_write_file(st, Head(cands).file_path, Head(cands).content), Tail(cands))

\* CodeExtractor().extract_and_execute(agent_output) on the file system fs
extract_and_execute(fs, agent_output) == WriteAll(EmptyLists(fs), Pool(agent_output))

(***************************************************************************)
(* The inputs: generated texts put together from declarations in the three *)
(* forms the extractor recognises, and the project the extractor runs in.  *)
(***************************************************************************)
\* the most declarations in one generated text
MaxDecls == 2
\* the most times the same text is extracted against the same project
MaxExtractions == 2

\* write_file(file_path="P", content="""C""")
Decl3(P, C) ==
  <<"write_file", "(", "file_path", "=", DQ>> \o P
  \o <<DQ, ",", SP, "content", "=", DQ, DQ, DQ>> \o C \o <<DQ, DQ, DQ, ")">>

\* write_file(file_path="P", content="C")
Decl1(P, C) ==
  <<"write_file", "(", "file_path", "=", DQ>> \o P
  \o <<DQ, ",", SP, "content", "=", DQ>> \o C \o <<DQ, ")">>

\* a fenced python block whose first line is the comment '# P'
Block(P, C) == Fence \o <<"python", NL, "#", SP>> \o P \o <<NL>> \o C \o <<NL>> \o Fence

\* a heading '### Module (`P`)' followed by a fenced block
Section(P, C) ==
  <<"#", "#", "#", SP, "Module", SP, "(", BT>> \o P \o <<BT, ")", NL>>
  \o Fence \o <<"python", NL>> \o C \o <<NL>> \o Fence

app_py == <<"app", ".py">>
main_py == <<"main", ".py">>
dot_env == <<".env">>
print_hi == <<"print", "(", SQ, "hi", SQ, ")">>

Fragments ==
  { Decl3(app_py, print_hi),
    Decl1(app_py, <<"B">>),
    Decl3(dot_env, <<"K">>),
    Decl1(dot_env, <<"K">>),
    Decl1(<<"..", SL, "x", ".py">>, <<"X">>),
    Decl1(<<SL, "abs", ".py">>, <<"Y">>),
    Decl1(app_py \o <<SL, "b", ".py">>, <<"E">>),
    Block(app_py, <<"C">>),
    Block(<<"sub", SL>> \o main_py, <<"M">>),
    Section(app_py, <<"D">>) }

Texts == { Join(parts, NL) : parts \in UNION { [1..n -> Fragments] : n \in 0..MaxDecls } }

Loc(file_path) == Cwd \o Path(file_path).parts

EmptyProject == (<<>> :> DirEntry) @@ (Cwd :> DirEntry)

\* a project that already holds app.py and the protected main.py and .env
OldProject ==
  (Loc(app_py) :> FileEntry(<<"OLD">>)) @@ (Loc(main_py) :> FileEntry(<<"ORIG">>))
  @@ (Loc(dot_env) :> FileEntry(<<"SECRET">>)) @@ EmptyProject

Projects == {EmptyProject, OldProject}

\* the decimal digits of a count
Num(n) == IF n < 10 THEN <<"0", "1", "2", "3", "4", "5", "6", "7", "8", "9">>[n + 1] ELSE "many"

Indented(items) == [i \in 1..Len(items) |-> <<"  - ">> \o items[i]]

\* CodeExtractor._generate_summary: the lines of the summary
_generate_summary(st) ==
  (IF st.files_created # <<>>
   THEN << <<"Created ", Num(Len(st.files_created)), " file(s):">> >> \o Indented(st.files_created)
   ELSE <<>>)
  \o (IF st.files_modified # <<>>
      THEN << <<NL, "Modified ", Num(Len(st.files_modified)), " file(s):">> >>
           \o Indented(st.files_modified)
      ELSE <<>>)
  \o (IF st.errors # <<>>
      THEN << <<NL, "Encountered ", Num(Len(st.errors)), " error(s):">> >> \o Indented(st.errors)
      ELSE <<>>)
  \o (IF st.files_created = <<>> /\ st.files_modified = <<>>
      THEN << <<"No files were created or modified.">> >>
      ELSE <<>>)

\* the dictionary extract_and_execute returns, with the file system it leaves
ExtractionResult(st) ==
  [fs |-> st.fs,
   result |-> [files_created |-> st.files_created, files_modified |-> st.files_modified,
               errors |-> st.errors, summary |-> _generate_summary(st)]]

\* process_coder_output(output): a new CodeExtractor, extract_and_execute
process_coder_output(fs, output) == ExtractionResult(extract_and_execute(fs, output))

(***************************************************************************)
(* WriteFileTool of simple_tools.py, the write_file tool of the agents.    *)
(***************************************************************************)
\* base_path / file_path
PathJoin(base, path) == [abs |-> base.abs, parts |-> base.parts \o path.parts]

\* the path _run writes to: relative paths go under the base_directory when
\* one is set (None and '' are not)
ToolPath(base_directory, file_path) ==
  IF base_directory # <<>> /\ ~Path(file_path).abs
  THEN PathJoin(Path(base_directory), Path(file_path))
  ELSE Path(file_path)

\* WriteFileTool._run(file_path, content) on the file system fs
WriteFileTool_run(fs, base_directory, file_path, content) ==
  LET path == ToolPath(base_directory, file_path)
      made == Mkdir(fs, Parent(path))
  IN IF made.err # "" THEN [fs |-> made.fs, out |-> <<"Error writing file: ", made.err>>]
     ELSE LET wr == OpenWrite(made.fs, path, content) IN
          IF wr.err # "" THEN [fs |-> wr.fs, out |-> <<"Error writing file: ", wr.err>>]
          ELSE [fs |-> wr.fs,
                out |-> <<"Successfully wrote ", Num(Len(content)), " characters to ">>
                        \o PathStr(path)]

(***************************************************************************)
(* CodeEditorServer of mcp_servers/code_editor/server.py, the code editor  *)
(* the agents reach over MCP.  The server is started in the project root.  *)
(***************************************************************************)
\* the names left of an absolute path when every '..' has stepped to the
\* parent; the root is its own parent
RECURSIVE Collapse(_, _)
Collapse(done, parts) ==
  IF parts = <<>> THEN done
  ELSE Collapse(IF Head(parts) = <<"..">>
                THEN (IF done = <<>> THEN done ELSE SubSeq(done, 1, Len(done) - 1))
                ELSE Append(done, Head(parts)),
                Tail(parts))

\* path.resolve(): absolute, without '..'
ResolvePath(path) ==
  [abs |-> TRUE, parts |-> Collapse(IF path.abs THEN <<>> ELSE Cwd, path.parts)]

\* self.project_root = Path(project_root).resolve(), with the default "."
project_root == ResolvePath(Path(<<".">>))

\* self.project_root / relative_path: an absolute path replaces the root
RootJoin(relative_path) ==
  IF Path(relative_path).abs THEN Path(relative_path)
  ELSE PathJoin(project_root, Path(relative_path))

\* _get_full_path(relative_path): the resolved path, or a ValueError when its
\* string does not start with the string of the root
_get_full_path(relative_path) ==
  LET full_path == ResolvePath(RootJoin(relative_path)) IN
  IF ~StartsWith(PathStr(full_path), PathStr(project_root))
  THEN [err |-> "ValueError", path |-> full_path]
  ELSE [err |-> "", path |-> full_path]

\* CodeEditorServer._write_file(file_path, content) on the file system fs
EditorWriteFile(fs, file_path, content) ==
  LET full == _get_full_path(file_path) IN
  IF full.err # "" THEN [fs |-> fs, out |-> <<"Error writing file: ", full.err>>]
  ELSE LET made == Mkdir(fs, Parent(full.path)) IN
       IF made.err # "" THEN [fs |-> made.fs, out |-> <<"Error writing file: ", made.err>>]
       ELSE LET wr == OpenWrite(made.fs, full.path, content) IN
            IF wr.err # "" THEN [fs |-> wr.fs, out |-> <<"Error writing file: ", wr.err>>]
            ELSE [fs |-> wr.fs,
                  out |-> <<"Successfully wrote to ">> \o file_path
                          \o <<" (", Num(Len(content)), " characters)">>]

\* CodeEditorServer._create_directory(directory_path) on the file system fs
EditorCreateDirectory(fs, directory_path) ==
  LET full == _get_full_path(directory_path) IN
  IF full.err # "" THEN [fs |-> fs, out |-> <<"Error creating directory: ", full.err>>]
  ELSE LET made == Mkdir(fs, full.path) IN
       IF made.err # "" THEN [fs |-> made.fs, out |-> <<"Error creating directory: ", made.err>>]
       ELSE [fs |-> made.fs, out |-> <<"Successfully created directory: ">> \o directory_path]

(***************************************************************************)
(* AgentOrchestrator.  A dict is a function on its keys; None is the empty *)
(* function, which 'if result:' takes for false like the empty dict.       *)
(***************************************************************************)
None == [k \in {} |-> <<>>]
Truthy(d) == DOMAIN d # {}

Roles == {"project_manager", "architect", "coder", "tester", "reviewer"}

\* the metadata an agent scrapes from its own prose: best-effort hints
Hints == <<"hints">>

\* ProjectManagerAgent.analyze_requirements: the generated text is the
\* specification
analyze_requirements(text) ==
  [specification |-> text, questions |-> Hints, confidence |-> Hints]

\* ArchitectAgent.design_architecture
design_architecture(text) ==
  [architecture |-> text, components |-> Hints, technology_stack |-> Hints,
   design_decisions |-> Hints]

\* CoderAgent.implement_feature: the generated text is the summary
implement_feature(text) ==
  [files_modified |-> Hints, files_created |-> Hints, summary |-> text,
   testing_notes |-> Hints]

\* TesterAgent.create_tests
create_tests(text) ==
  [test_files |-> Hints, summary |-> text, coverage_notes |-> Hints]

\* ReviewerAgent.review_code
review_code(text) ==
  [review_summary |-> text, issues |-> Hints, suggestions |-> Hints, score |-> Hints]

\* what the method execute_workflow_step calls for the role returns
AgentReturn(agent_name, text) ==
  CASE agent_name = "project_manager" -> analyze_requirements(text)
    [] agent_name = "architect" -> design_architecture(text)
    [] agent_name = "coder" -> implement_feature(text)
    [] agent_name = "tester" -> create_tests(text)
    [] agent_name = "reviewer" -> review_code(text)

\* branches that test for the specification alone
RequiredKeys_specOnly(agent_name) ==
  IF agent_name = "project_manager" THEN {"user_requirement"} ELSE {"specification"}

\* the context keys the branch of the role tests before it calls the agent
RequiredKeys(agent_name) ==
  CASE agent_name = "project_manager" -> {"user_requirement"}
    [] agent_name \in {"architect", "coder"} -> {"specification"}
    [] agent_name \in {"tester", "reviewer"} -> {"specification", "code"}

\* context[k], which the branch reads after it tested that k is there
Item(context, k) == IF k \in DOMAIN context THEN context[k] ELSE <<"KeyError">>

\* the arguments the branch of the role passes to the method of the agent
Arguments(agent_name, context) ==
  CASE agent_name = "project_manager" -> <<Item(context, "user_requirement")>>
    [] agent_name \in {"architect", "coder"} -> <<Item(context, "specification")>>
    [] agent_name = "tester" -> <<Item(context, "specification"), Item(context, "code")>>
    [] agent_name = "reviewer" -> <<Item(context, "code"), Item(context, "specification")>>

\* 'await agent.method(...)': b says whether the collaborator raises, and
\* the text it generates otherwise
AgentCall(agent_name, b) ==
  IF b.raises THEN [exc |-> TRUE, result |-> None]
  ELSE [exc |-> FALSE, result |-> AgentReturn(agent_name, b.text)]

(***************************************************************************)
(* AiderTool of tools/aider_tool.py and the Aider branch of                *)
(* CoderAgent.implement_feature.                                           *)
(***************************************************************************)
Contains(s, p) == \E i \in 1..(Len(s) - Len(p) + 1) : SubSeq(s, i, i + Len(p) - 1) = p

COLON == ":"

\* the lines of Aider's output that name a file
FileMarks == { <<"Modified", COLON>>, <<"Created", COLON>>, <<"Added", COLON>> }

\* line.split(':', 1)[1]
AfterColon(line) ==
  SubSeq(line, MinOf({k \in 1..Len(line) : line[k] = COLON}) + 1, Len(line))

RECURSIVE ModifiedFiles(_)
ModifiedFiles(ls) ==
  IF ls = <<>> THEN <<>>
  ELSE (IF \E m \in FileMarks : Contains(Head(ls), m)
        THEN << Strip(AfterColon(Head(ls))) >> ELSE <<>>)
       \o ModifiedFiles(Tail(ls))

\* AiderTool._extract_modified_files(aider_output)
_extract_modified_files(aider_output) == ModifiedFiles(Split(aider_output, NL))

\* AiderTool._run_aider when subprocess.run ended as run says: the process
\* exited, or the call raised.  A timeout and a missing executable become
\* returncode -1; another exception leaves _run_aider
_run_aider(run) ==
  CASE run.kind = "exit" ->
         [exc |-> "", returncode |-> run.returncode, stdout |-> run.stdout,
          stderr |-> run.stderr]
    [] run.kind = "TimeoutExpired" ->
         [exc |-> "", returncode |-> -1, stdout |-> <<>>,
          stderr |-> <<"Command timed out after 5 minutes">>]
    [] run.kind = "FileNotFoundError" ->
         [exc |-> "", returncode |-> -1, stdout |-> <<>>,
          stderr |-> <<"Aider not installed. Run: pip install aider-chat">>]
    [] OTHER ->
         [exc |-> run.kind, returncode |-> 0, stdout |-> <<>>, stderr |-> <<>>]

\* AiderTool.implement_feature: the whole body is in a try block whose
\* except clause returns the failure
AiderTool_implement_feature(run) ==
  LET result == _run_aider(run) IN
  IF result.exc # ""
  THEN [success |-> FALSE, output |-> <<>>, files_modified |-> <<>>,
        error |-> <<result.exc>>]
  ELSE [success |-> result.returncode = 0,
        output |-> result.stdout,
        files_modified |-> _extract_modified_files(result.stdout),
        error |-> IF result.returncode # 0 THEN result.stderr ELSE None]

\* self.aider_tool.implement_feature(...) as the coder sees it: an AiderTool,
\* or a tool whose implement_feature raises
AiderCall(tool) ==
  IF tool.kind = "AiderTool"
  THEN [raises |-> FALSE, result |-> AiderTool_implement_feature(tool.run)]
  ELSE [raises |-> TRUE, result |-> None]

\* a coder that takes every result of Aider for a success
AiderSucceeded_always(result) == TRUE

\* if result['success']:
AiderSucceeded(result) == result.success

\* what the coder returns when Aider succeeded
AiderReturn(result) ==
  [files_modified |-> result.files_modified, files_created |-> result.files_modified,
   summary |-> result.output, testing_notes |-> <<"Run tests to verify implementation">>]

\* the text-based generation of implement_feature, which answers as b says
TextGeneration(calls, aider, b) ==
  LET r == AgentCall("coder", b) IN
  [exc |-> r.exc, calls |-> Append(calls, "text"), aider |-> aider, result |-> r.result]

\* CoderAgent.implement_feature(specification) with self.use_aider and
\* self.aider_tool as given; calls lists the generators that were run
CoderImplementFeature(use_aider, tool, b) ==
  IF use_aider
  THEN LET aider == AiderCall(tool) IN
       IF ~aider.raises /\ AiderSucceeded(aider.result)
       THEN [exc |-> FALSE, calls |-> <<"aider">>, aider |-> aider,
             result |-> AiderReturn(aider.result)]
       ELSE TextGeneration(<<"aider">>, aider, b)
  ELSE TextGeneration(<<>>, None, b)

\* a post-processing that leaves the lists of the agent in the result
WithExtraction_keep(result, x) ==
  [fs |-> x.fs,
   result |-> [k \in DOMAIN result \cup {"extraction_summary"} |->
                 IF k = "extraction_summary" THEN x.result.summary ELSE result[k]]]

\* result['files_created'] = extraction_result['files_created'], and so on
WithExtraction(result, x) ==
  [fs |-> x.fs,
   result |-> [k \in DOMAIN result \cup {"extraction_summary"} |->
                 IF k = "files_created" THEN x.result.files_created
                 ELSE IF k = "files_modified" THEN x.result.files_modified
                 ELSE IF k = "extraction_summary" THEN x.result.summary
                 ELSE result[k]]]

\* the coder branch after implement_feature returned: the post-processing
PostProcess(fs, result) ==
  WithExtraction(result, process_coder_output(fs, result.summary))

\* an engine that extracts from what the tester wrote as well
Extracts_tester(agent_name) == agent_name \in {"coder", "tester"}

\* the extraction runs for the coder only
Extracts(agent_name) == agent_name = "coder"

\* 'return result' after the agent was called
Returned(x) == [exc |-> FALSE, result |-> x.result, fs |-> x.fs, invoked |-> TRUE]

\* the try block of execute_workflow_step
TryBlock(agent_name, context, fs, b) ==
  IF RequiredKeys(agent_name) \subseteq DOMAIN context
  THEN LET r == AgentCall(agent_name, b) IN
       IF r.exc THEN [exc |-> TRUE, result |-> None, fs |-> fs, invoked |-> TRUE]
       ELSE IF Extracts(agent_name)
            THEN Returned(PostProcess(fs, r.result))
            ELSE Returned([result |-> r.result, fs |-> fs])
  ELSE [exc |-> FALSE, result |-> None, fs |-> fs, invoked |-> FALSE]

\* an except clause that raises again
ExceptClause_reraise(r) == r

\* except Exception as e: logged, return None
ExceptClause(r) == [r EXCEPT !.exc = FALSE, !.result = None]

\* try ... except: what the try block raised goes through the except clause
Caught(r) == IF r.exc THEN ExceptClause(r) ELSE r

\* execute_workflow_step(step_name, agent_name, context) with the agents
\* that were initialized
execute_workflow_step(agents, agent_name, context, fs, b) ==
  IF agent_name \notin agents
  THEN [exc |-> FALSE, result |-> None, fs |-> fs, invoked |-> FALSE]
  ELSE Caught(TryBlock(agent_name, context, fs, b))

Put(d, k, v) == [x \in DOMAIN d \cup {k} |-> IF x = k THEN v ELSE d[x]]

\* a merge that takes the code from a 'code' key alone
MergeResult_codeOnly(context, step_name, result) ==
  LET c1 == [context EXCEPT !["workflow_results"] = Put(@, step_name, result)]
      c2 == IF "specification" \in DOMAIN result
            THEN Put(c1, "specification", result["specification"]) ELSE c1
      c3 == IF "architecture" \in DOMAIN result
            THEN Put(c2, "architecture", result["architecture"]) ELSE c2
  IN IF "code" \in DOMAIN result THEN Put(c3, "code", result["code"]) ELSE c3

\* a merge that keeps the code the context already has
MergeResult_first(context, step_name, result) ==
  LET c1 == [context EXCEPT !["workflow_results"] = Put(@, step_name, result)]
      c2 == IF "specification" \in DOMAIN result
            THEN Put(c1, "specification", result["specification"]) ELSE c1
      c3 == IF "architecture" \in DOMAIN result
            THEN Put(c2, "architecture", result["architecture"]) ELSE c2
  IN IF ("code" \in DOMAIN result \/ "summary" \in DOMAIN result) /\ "code" \notin DOMAIN c3
     THEN Put(c3, "code",
              IF "code" \in DOMAIN result THEN result["code"] ELSE result["summary"])
     ELSE c3

\* the body of 'if result:' in run_workflow
MergeResult(context, step_name, result) ==
  LET c1 == [context EXCEPT !["workflow_results"] = Put(@, step_name, result)]
      c2 == IF "specification" \in DOMAIN result
            THEN Put(c1, "specification", result["specification"]) ELSE c1
      c3 == IF "architecture" \in DOMAIN result
            THEN Put(c2, "architecture", result["architecture"]) ELSE c2
      c4 == IF "code" \in DOMAIN result \/ "summary" \in DOMAIN result
            THEN Put(c3, "code",
                     IF "code" \in DOMAIN result THEN result["code"]
                     ELSE IF "summary" \in DOMAIN result THEN result["summary"] ELSE <<>>)
            ELSE c3
  IN c4

\* a loop that stays on a step until it yields a result
NextStep_retry(i, result) == IF Truthy(result) THEN i + 1 ELSE i

\* 'for step in workflow.get('steps', [])': the step after step i
NextStep(i, result) == i + 1

\* a context that starts with the specification of an earlier session
NewContext_spec(input_data) ==
  [k \in {"user_requirement", "workflow_results", "specification"} |->
     IF k = "user_requirement" THEN input_data
     ELSE IF k = "specification" THEN <<"old spec">> ELSE None]

\* a context that is seeded with a specification as well
NewContext_seeded(input_data) ==
  [k \in {"user_requirement", "workflow_results", "specification"} |->
     IF k = "workflow_results" THEN None ELSE input_data]

\* run_workflow has no return statement: the call evaluates to None, whatever
\* the steps in tr did
ReturnValue(tr) == None

\* context = {'user_requirement': input_data, 'workflow_results': {}}
NewContext(input_data) ==
  [k \in {"user_requirement", "workflow_results"} |->
     IF k = "user_requirement" THEN input_data ELSE None]

(***************************************************************************)
(* The inputs of the orchestrator.                                         *)
(***************************************************************************)
\* the most steps of the configured workflow
MaxSteps == 3
\* the most run_workflow calls on one orchestrator
MaxRuns == 2

StepDefs ==
  { [name |-> "analyze", agent |-> "project_manager"],
    [name |-> "design", agent |-> "architect"],
    [name |-> "implement", agent |-> "coder"],
    [name |-> "test", agent |-> "tester"],
    [name |-> "review", agent |-> "reviewer"],
    [name |-> "deploy", agent |-> "deployer"] }

Step(name, agent) == [name |-> name, agent |-> agent]

\* the pipelines from the requirement to the review, with and without the
\* design step
Pipelines ==
  { <<Step("analyze", "project_manager"), Step("implement", "coder"),
      Step("test", "tester"), Step("review", "reviewer")>>,
    <<Step("analyze", "project_manager"), Step("design", "architect"),
      Step("implement", "coder"), Step("test", "tester"), Step("review", "reviewer")>> }

\* the configured workflow: a pipeline, or any steps up to MaxSteps
Workflows == UNION { [1..n -> StepDefs] : n \in 0..MaxSteps } \cup Pipelines

\* the agents that initialize_agents left in self.agents
AgentSets == {Roles, Roles \ {"coder"}}

\* what the caller may pass as input_data: a requirement, or the feedback of
\* a continuation
Inputs == {<<"request">>, <<"feedback">>}

\* what the language model may answer for a role
AgentTexts(agent_name) ==
  IF agent_name = "coder"
  THEN { Decl1(app_py, <<"B">>), Decl1(dot_env, <<"K">>) }
  ELSE IF agent_name = "project_manager" THEN { <<"spec">> }
  ELSE IF agent_name = "tester" THEN { Decl1(<<"test_app", ".py">>, <<"T">>) }
  ELSE { <<"prose">> }

Behaviours(agent_name) ==
  {[raises |-> TRUE, text |-> <<>>]}
  \cup {[raises |-> FALSE, text |-> t] : t \in AgentTexts(agent_name)}

(***************************************************************************)
(* More texts: payloads that need normalizing, and the declarations the    *)
(* coder prompt asks for, with other extensions and fence language tags.   *)
(***************************************************************************)
\* ```<lang> / # <path> / <content> / ```
BlockL(lang, P, C) == Fence \o lang \o <<NL, "#", SP>> \o P \o <<NL>> \o C \o <<NL>> \o Fence

\* the format of the coder prompt: #### File: `<path>` / ```<lang> / <content> / ```
SectionL(lang, P, C) ==
  <<"#", "#", "#", "#", SP, "File:", SP, BT>> \o P \o <<BT, NL>>
  \o Fence \o lang \o <<NL>> \o C \o <<NL>> \o Fence

plain == <<"x">>
padded == <<SP, "x", SP>>
escaped == <<"x", BS, DQ, "y">>
fenced == Fence \o <<"python", NL, "x", NL>> \o Fence

\* one declaration of app.py with a payload, per form
PayloadTexts ==
  {Decl3(app_py, c) : c \in {plain, padded, escaped, fenced}}
  \cup {Decl1(app_py, c) : c \in {plain, padded, escaped, fenced}}
  \cup {Block(app_py, c) : c \in {plain, padded, escaped}}
  \cup {Section(app_py, c) : c \in {plain, padded, escaped}}

readme_md == <<"README", ".md">>
main_js == <<"src", SL, "main", ".js">>
env_example == <<".env", ".example">>

PromptPaths == {app_py, readme_md, main_js, env_example}
LangTags == {<<"python">>, <<"javascript">>, <<>>}

\* one fenced block with a path comment, or one heading with a fenced block
PromptTexts ==
  {BlockL(lang, P, plain) : lang \in LangTags, P \in PromptPaths}
  \cup {SectionL(lang, P, plain) : lang \in LangTags, P \in PromptPaths}

FormTexts == PayloadTexts \cup PromptTexts

\* declared paths at the edge of the protected-path guard; a name is cut
\* into pieces where an entry of PROTECTED_FILES could start or end
requirements_txt == <<"requirements", ".txt">>

GuardPaths ==
  { main_py, dot_env, requirements_txt, app_py,
    <<"config", SL, "agents", ".yaml">>,
    <<"sub", SL>> \o main_py,
    <<".", SL>> \o main_py,
    <<"src", SL, "do">> \o main_py,
    <<"dev-">> \o requirements_txt,
    <<"x">> \o dot_env,
    <<"sub", BS>> \o main_py,
    <<"tools", BS, "code_extractor", ".py">>,
    <<"Main", ".py">>,
    <<"main", ".PY">>,
    main_py \o <<"c">>,
    requirements_txt \o <<".bak">>,
    <<"env">>,
    main_py \o <<SL>>,
    dot_env \o <<SL>>,
    main_py \o <<SL, ".">>,
    <<"sub", SL>> \o requirements_txt \o <<SL>> }

GuardTexts == { Decl1(P, <<"X">>) : P \in GuardPaths }

\* texts for the header-section strategy: headings with and without a path,
\* with and without a fenced block behind them
Heading(P) == <<"#", "#", "#", SP, "Module", SP, "(", BT>> \o P \o <<BT, ")">>

Title == <<"#", "#", "#", SP, "Notes">>

Fenced(C) == Fence \o <<"python", NL>> \o C \o <<NL>> \o Fence

\* a fenced block that is never closed
Unclosed(C) == Fence \o <<"python", NL>> \o C

b_py == <<"b", ".py">>

SectionTexts ==
  { Join(parts, NL) : parts \in
      { <<Heading(app_py), Fenced(<<"D">>)>>,
        <<Heading(app_py), Heading(b_py), Fenced(<<"C">>)>>,
        <<Heading(app_py), Fenced(<<"D">>), Heading(b_py), Fenced(<<"C">>)>>,
        <<Heading(app_py), <<"prose">>, Fenced(<<"D">>)>>,
        <<Heading(app_py), Title, Fenced(<<"D">>)>>,
        <<Title, Fenced(<<"D">>)>>,
        <<Heading(app_py), Unclosed(<<"D">>)>>,
        <<Heading(app_py), Unclosed(<<"D">>), Heading(b_py), Fenced(<<"C">>)>>,
        <<Heading(app_py), <<"prose">>>>,
        <<Heading(app_py)>>,
        <<Heading(main_py), Fenced(<<"D">>), Heading(b_py), Fenced(<<"C">>)>>,
        <<<<"prose">>, Fenced(<<"D">>), Heading(b_py)>>,
        <<Title, Heading(b_py), <<"prose">>, Fenced(<<"C">>)>>,
        <<Heading(app_py), Fenced(<<"D">>), <<"prose">>, Title>>,
        <<SectionL(<<"python">>, b_py, <<"C">>), Heading(app_py), Fenced(<<"D">>)>>,
        <<>> } }

\* the most calls of the write_file tool in one session
MaxToolCalls == 2

\* what an agent may pass to its write_file tool
ToolPaths ==
  { main_py, dot_env, requirements_txt, app_py,
    <<"sub", SL>> \o main_py,
    <<"config", SL, "agents", ".yaml">> }

ToolContents == { <<"X">>, <<"Y", "Z">> }

\* the base_directory of the tool: not set, or a directory of the project
BaseDirectories == { <<>>, <<"sub">> }

\* what an agent may pass to the code editor: paths of the project, a path
\* that climbs to a sibling directory whose name starts with the name of the
\* root, other paths that leave the root, and the root itself
EditorPaths ==
  { app_py, main_py, <<"sub", SL, "a", ".py">>, <<"sub">>, <<".">>,
    <<"..", SL, "proj", "-other", SL, "x">>,
    <<"..", SL, "proj", "-other">>,
    <<"..", SL, "other", SL, "x">>,
    <<"..", SL, "pr", SL, "x">>,
    <<SL, "etc", SL, "x">>,
    <<"sub", SL, "..", SL, "..", SL, "x">> }

\* the most implement_feature calls of one coder
MaxCoderCalls == 2

\* how subprocess.run of the Aider command may end
AiderRuns ==
  { [kind |-> "exit", returncode |-> 0,
     stdout |-> <<"Created", COLON, SP>> \o app_py \o <<NL, "ok">>, stderr |-> <<>>],
    [kind |-> "exit", returncode |-> 0, stdout |-> <<"ok">>, stderr |-> <<>>],
    [kind |-> "exit", returncode |-> 1, stdout |-> <<"tried">>, stderr |-> <<"boom">>],
    [kind |-> "exit", returncode |-> 2, stdout |-> <<>>, stderr |-> <<"usage">>],
    [kind |-> "TimeoutExpired", returncode |-> 0, stdout |-> <<>>, stderr |-> <<>>],
    [kind |-> "FileNotFoundError", returncode |-> 0, stdout |-> <<>>, stderr |-> <<>>],
    [kind |-> "PermissionError", returncode |-> 0, stdout |-> <<>>, stderr |-> <<>>] }

\* the aider_tool of the coder
AiderTools ==
  { [kind |-> "AiderTool", run |-> r] : r \in AiderRuns }
  \cup { [kind |-> "raising", run |-> [kind |-> "exit", returncode |-> 0,
                                       stdout |-> <<>>, stderr |-> <<>>]] }

\* two runs of the program started in the same project root, each of them
\* in one _write_file call
Procs == {"run1", "run2"}

sub_a_py == <<"sub", SL, "a", ".py">>

RaceCands ==
  { [file_path |-> app_py, content |-> <<"A", "A">>],
    [file_path |-> app_py, content |-> <<"B">>],
    [file_path |-> sub_a_py, content |-> <<"S">>],
    [file_path |-> dot_env, content |-> <<"K">>] }

(***************************************************************************)
(* State.                                                                  *)
(***************************************************************************)
VARIABLES
  fs,              \* the file system
  \* one CodeExtractor at work (SpecExtract)
  agent_output,    \* the text given to process_coder_output
  cands,           \* the _write_file calls extract_and_execute makes on it
  idx,             \* the next of them
  xpc,             \* "new", "writing", "done"
  extractions,     \* number of process_coder_output calls so far
  fs0,             \* the file system when the current extraction started
  files_created, files_modified, errors,   \* the lists of the CodeExtractor
  \* one AgentOrchestrator (Spec)
  agents,          \* the keys of self.agents
  steps,           \* the steps of the configured workflow
  wpc,             \* "idle", "running", "completed", "not_found", "raised"
  step_i,          \* the next step of the run
  context,         \* the context of the run
  runs,            \* number of run_workflow calls so far
  input_data,      \* the input_data of the last run_workflow call
  trace,           \* what each step of the run did, in the order of the calls
  \* two runs in one project root (SpecRace), per run
  rcand,           \* the arguments of its _write_file call
  rpc,             \* "idle", "check", "mkdir", "open", "write", "done"
  file_existed,    \* the local of that name
  rlists,          \* the lists of its CodeExtractor
  events,          \* the system calls so far, in the order they were made
  \* _extract_file_sections at work (SpecSections)
  lines,           \* output.split('\n')
  sec_i,           \* the index i of the loop, counted from 1: i + 1
  \* the write_file tool of the agents (SpecTool)
  tool_calls,      \* number of calls of a write tool so far
  tool_args,       \* the arguments of the last call
  tool_result,     \* what the last call returned
  \* CoderAgent.implement_feature with Aider (SpecAider)
  coder_calls,     \* number of implement_feature calls so far
  coder_args,      \* the last call: use_aider, the aider_tool, the generation
  coder_out        \* what the last call did and returned

xvars == <<agent_output, cands, idx, xpc, extractions, fs0,
           files_created, files_modified, errors>>

wvars == <<agents, steps, wpc, step_i, context, runs, input_data, trace>>

rvars == <<rcand, rpc, file_existed, rlists, events>>

svars == <<lines, sec_i>>

tvars == <<tool_calls, tool_args, tool_result>>

cvars == <<coder_calls, coder_args, coder_out>>

vars == <<fs, xvars, wvars, rvars, svars, tvars, cvars>>

XState == [fs |-> fs, files_created |-> files_created,
           files_modified |-> files_modified, errors |-> errors]

XIdle ==
  /\ agent_output = <<>>
  /\ cands = <<>>
  /\ idx = 1
  /\ xpc = "new"
  /\ extractions = 0
  /\ fs0 = fs
  /\ files_created = <<>>
  /\ files_modified = <<>>
  /\ errors = <<>>

WIdle ==
  /\ agents = {}
  /\ steps = <<>>
  /\ wpc = "idle"
  /\ step_i = 1
  /\ context = None
  /\ runs = 0
  /\ input_data = <<>>
  /\ trace = <<>>

NoLists == [files_created |-> <<>>, files_modified |-> <<>>, errors |-> <<>>]

RIdle ==
  /\ rcand = [p \in Procs |-> [file_path |-> <<>>, content |-> <<>>]]
  /\ rpc = [p \in Procs |-> "idle"]
  /\ file_existed = [p \in Procs |-> FALSE]
  /\ rlists = [p \in Procs |-> NoLists]
  /\ events = <<>>

SIdle == lines = <<>> /\ sec_i = 1

TIdle == tool_calls = 0 /\ tool_args = None /\ tool_result = <<>>

CIdle == coder_calls = 0 /\ coder_args = None /\ coder_out = None

(***************************************************************************)
(* SpecExtract: process_coder_output, one _write_file call at a time.      *)
(***************************************************************************)
XInit == fs \in Projects /\ XIdle /\ WIdle /\ RIdle /\ SIdle /\ TIdle /\ CIdle

\* process_coder_output(text): a new CodeExtractor starts on the text
XStart ==
  /\ xpc = "new"
  /\ \E text \in Texts :
       /\ agent_output' = text
       /\ cands' = Pool(text)
  /\ xpc' = "writing"
  /\ extractions' = 1
  /\ idx' = 1
  /\ fs0' = fs
  /\ files_created' = <<>>
  /\ files_modified' = <<>>
  /\ errors' = <<>>
  /\ UNCHANGED <<fs, wvars, rvars, svars, tvars, cvars>>

\* process_coder_output on the same text once more: another CodeExtractor,
\* which finds the same calls to make
XAgain ==
  /\ xpc = "done"
  /\ extractions < MaxExtractions
  /\ xpc' = "writing"
  /\ extractions' = extractions + 1
  /\ idx' = 1
  /\ fs0' = fs
  /\ files_created' = <<>>
  /\ files_modified' = <<>>
  /\ errors' = <<>>
  /\ UNCHANGED <<fs, agent_output, cands, wvars, rvars, svars, tvars, cvars>>

\* the next self._write_file(file_path, content) call
XWrite ==
  /\ xpc = "writing"
  /\ idx <= Len(cands)
  /\ LET st == _write_file(XState, cands[idx].file_path, cands[idx].content) IN
       /\ fs' = st.fs
       /\ files_created' = st.files_created
       /\ files_modified' = st.files_modified
       /\ errors' = st.errors
  /\ idx' = idx + 1
  /\ UNCHANGED <<agent_output, cands, xpc, extractions, fs0, wvars, rvars, svars, tvars, cvars>>

\* extract_and_execute returns its result
XReturn ==
  /\ xpc = "writing"
  /\ idx > Len(cands)
  /\ xpc' = "done"
  /\ UNCHANGED <<fs, agent_output, cands, idx, extractions, fs0,
                 files_created, files_modified, errors, wvars, rvars, svars, tvars, cvars>>

XNext == XStart \/ XAgain \/ XWrite \/ XReturn

SpecExtract == XInit /\ [][XNext]_vars

(***************************************************************************)
(* SpecForms: process_coder_output on one declaration in one form.         *)
(***************************************************************************)
FStart ==
  /\ xpc = "new"
  /\ \E text \in FormTexts :
       /\ agent_output' = text
       /\ cands' = Pool(text)
  /\ xpc' = "writing"
  /\ extractions' = 1
  /\ idx' = 1
  /\ fs0' = fs
  /\ files_created' = <<>>
  /\ files_modified' = <<>>
  /\ errors' = <<>>
  /\ UNCHANGED <<fs, wvars, rvars, svars, tvars, cvars>>

FNext == FStart \/ XWrite \/ XReturn

SpecForms == XInit /\ [][FNext]_vars

(***************************************************************************)
(* SpecGuard: process_coder_output on one write_file call whose path is at *)
(* the edge of the protected-path guard.                                   *)
(***************************************************************************)
GStart ==
  /\ xpc = "new"
  /\ \E text \in GuardTexts :
       /\ agent_output' = text
       /\ cands' = Pool(text)
  /\ xpc' = "writing"
  /\ extractions' = 1
  /\ idx' = 1
  /\ fs0' = fs
  /\ files_created' = <<>>
  /\ files_modified' = <<>>
  /\ errors' = <<>>
  /\ UNCHANGED <<fs, wvars, rvars, svars, tvars, cvars>>

GNext == GStart \/ XWrite \/ XReturn

SpecGuard == XInit /\ [][GNext]_vars

(***************************************************************************)
(* SpecSections: _extract_file_sections on a text, one iteration of its    *)
(* outer while loop at a time, the _write_file call of the iteration       *)
(* included.  The loop of a call that was made keeps running.              *)
(***************************************************************************)
\* the call, up to the loop: lines = output.split('\n'), i = 0
SStart ==
  /\ xpc = "new"
  /\ \E text \in SectionTexts :
       /\ agent_output' = text
       /\ lines' = Split(text, NL)
  /\ sec_i' = 1
  /\ cands' = <<>>
  /\ xpc' = "sections"
  /\ extractions' = 1
  /\ fs0' = fs
  /\ files_created' = <<>>
  /\ files_modified' = <<>>
  /\ errors' = <<>>
  /\ UNCHANGED <<fs, idx, wvars, rvars, tvars, cvars>>

\* the iteration that found b: its _write_file call, if any, and the next i
Iterated(b) ==
  /\ sec_i' = b.next
  /\ cands' = cands \o b.cands
  /\ \E st \in {WriteAll(XState, b.cands)} :
       /\ fs' = st.fs
       /\ files_created' = st.files_created
       /\ files_modified' = st.files_modified
       /\ errors' = st.errors

\* one iteration of while i < len(lines)
SIter ==
  /\ xpc = "sections"
  /\ sec_i <= Len(lines)
  /\ \E b \in {SectionStep(lines, sec_i)} : Iterated(b)
  /\ UNCHANGED <<agent_output, lines, idx, xpc, extractions, fs0, wvars, rvars, tvars, cvars>>

\* the loop condition fails: _extract_file_sections returns
SReturn ==
  /\ xpc = "sections"
  /\ sec_i > Len(lines)
  /\ xpc' = "done"
  /\ UNCHANGED <<fs, agent_output, cands, idx, extractions, fs0,
                 files_created, files_modified, errors, lines, sec_i, wvars, rvars, tvars, cvars>>

SNext == SStart \/ SIter \/ SReturn

\* the loop is in an iteration: while i < len(lines)
Scanning == xpc = "sections" /\ sec_i <= Len(lines)

\* weak fairness of SIter, written out: the body of the loop is defined for
\* every line, so SIter is enabled exactly while Scanning holds
SIterFair == []<>(~Scanning) \/ []<><<SIter>>_vars

SpecSections == XInit /\ [][SNext]_vars /\ WF_vars(SReturn) /\ SIterFair

(***************************************************************************)
(* SpecTool: an agent calls its write_file tool.                           *)
(***************************************************************************)
\* the call returned r
ToolReturned(r) == fs' = r.fs /\ tool_result' = r.out

\* WriteFileTool(base_directory=...)._run(file_path, content)
ToolWrite ==
  /\ tool_calls < MaxToolCalls
  /\ tool_calls' = tool_calls + 1
  /\ \E base_directory \in BaseDirectories, file_path \in ToolPaths, content \in ToolContents :
       /\ tool_args' = [base_directory |-> base_directory, file_path |-> file_path,
                        content |-> content]
       /\ ToolReturned(WriteFileTool_run(fs, base_directory, file_path, content))
  /\ UNCHANGED <<xvars, wvars, rvars, svars, cvars>>

TNext == ToolWrite

SpecTool == XInit /\ [][TNext]_vars

(***************************************************************************)
(* SpecEditor: an agent calls the write_file and create_directory tools of *)
(* the code editor server.                                                 *)
(***************************************************************************)
\* call_tool("write_file", {file_path, content})
EditorWrite ==
  /\ tool_calls < MaxToolCalls
  /\ tool_calls' = tool_calls + 1
  /\ \E file_path \in EditorPaths, content \in ToolContents :
       /\ tool_args' = [name |-> "write_file", file_path |-> file_path, content |-> content]
       /\ ToolReturned(EditorWriteFile(fs, file_path, content))
  /\ UNCHANGED <<xvars, wvars, rvars, svars, cvars>>

\* call_tool("create_directory", {directory_path})
EditorMkdir ==
  /\ tool_calls < MaxToolCalls
  /\ tool_calls' = tool_calls + 1
  /\ \E directory_path \in EditorPaths :
       /\ tool_args' = [name |-> "create_directory", directory_path |-> directory_path]
       /\ ToolReturned(EditorCreateDirectory(fs, directory_path))
  /\ UNCHANGED <<xvars, wvars, rvars, svars, cvars>>

ENext == EditorWrite \/ EditorMkdir

SpecEditor == XInit /\ [][ENext]_vars

(***************************************************************************)
(* SpecAider: the coder is asked to implement a specification, with or     *)
(* without Aider.                                                          *)
(***************************************************************************)
\* agent.implement_feature(specification)
CoderImplement ==
  /\ coder_calls < MaxCoderCalls
  /\ coder_calls' = coder_calls + 1
  /\ \E use_aider \in BOOLEAN, tool \in AiderTools, b \in Behaviours("coder") :
       /\ coder_args' = [use_aider |-> use_aider, tool |-> tool, b |-> b]
       /\ coder_out' = CoderImplementFeature(use_aider, tool, b)
  /\ UNCHANGED <<fs, xvars, wvars, rvars, svars, tvars>>

ANext == CoderImplement

SpecAider == XInit /\ [][ANext]_vars

(***************************************************************************)
(* Spec: run_workflow, one step of the workflow at a time.                 *)
(***************************************************************************)
Init ==
  /\ fs \in Projects
  /\ XIdle
  /\ agents \in AgentSets
  /\ steps \in Workflows
  /\ wpc = "idle"
  /\ step_i = 1
  /\ context = None
  /\ runs = 0
  /\ input_data = <<>>
  /\ trace = <<>>
  /\ RIdle
  /\ SIdle
  /\ TIdle
  /\ CIdle

\* run_workflow(workflow_name, input_data) up to the loop
RunStart(found, input) ==
  /\ wpc \in {"idle", "completed", "not_found"}
  /\ runs < MaxRuns
  /\ runs' = runs + 1
  /\ input_data' = input
  /\ step_i' = 1
  /\ trace' = <<>>
  /\ IF found
     THEN wpc' = "running" /\ context' = NewContext(input)
     ELSE wpc' = "not_found" /\ context' = None
  /\ UNCHANGED <<fs, xvars, agents, steps, rvars, svars, tvars, cvars>>

\* the rest of the iteration once execute_workflow_step gave r: the result
\* is merged into the context; trace notes what the step did
Iteration(step_name, agent_name, b, r) ==
  /\ trace' = Append(trace, [step |-> step_i, agent |-> agent_name,
                             invoked |-> r.invoked, raised |-> b.raises /\ r.invoked,
                             result |-> r.result, before |-> context,
                             args |-> IF r.invoked THEN Arguments(agent_name, context)
                                      ELSE <<>>])
  /\ fs' = r.fs
  /\ IF r.exc
     THEN wpc' = "raised" /\ UNCHANGED <<step_i, context>>
     ELSE /\ wpc' = wpc
          /\ step_i' = NextStep(step_i, r.result)
          /\ context' = IF Truthy(r.result)
                        THEN MergeResult(context, step_name, r.result)
                        ELSE context

\* one iteration of the loop over the steps
RunStep ==
  /\ wpc = "running"
  /\ step_i <= Len(steps)
  /\ \E b \in (IF steps[step_i].agent \in Roles THEN Behaviours(steps[step_i].agent)
               ELSE {[raises |-> FALSE, text |-> <<>>]}) :
       Iteration(steps[step_i].name, steps[step_i].agent, b,
                 execute_workflow_step(agents, steps[step_i].agent, context, fs, b))
  /\ UNCHANGED <<xvars, agents, steps, runs, input_data, rvars, svars, tvars, cvars>>

\* the loop is over: "Workflow completed!"
RunEnd ==
  /\ wpc = "running"
  /\ step_i > Len(steps)
  /\ wpc' = "completed"
  /\ UNCHANGED <<fs, xvars, agents, steps, step_i, context, runs, input_data, trace, rvars, svars, tvars, cvars>>

Next == (\E found \in BOOLEAN, input \in Inputs : RunStart(found, input)) \/ RunStep \/ RunEnd

Spec == Init /\ [][Next]_vars

(***************************************************************************)
(* SpecRace: two runs of the program in the same working directory, each   *)
(* in one _write_file call.  The runs are two processes of the operating   *)
(* system: a step is one system call of one of them, and the lists of a    *)
(* CodeExtractor are its own.  _write_file takes no lock.                  *)
(***************************************************************************)
RInit ==
  /\ fs \in Projects
  /\ XIdle
  /\ WIdle
  /\ rcand \in [Procs -> RaceCands]
  /\ rpc = [p \in Procs |-> "check"]
  /\ file_existed = [p \in Procs |-> FALSE]
  /\ rlists = [p \in Procs |-> NoLists]
  /\ events = <<>>
  /\ SIdle
  /\ TIdle
  /\ CIdle

\* the except clause of _write_file in the run p
RError(p, e) ==
  /\ rlists' = [rlists EXCEPT ![p].errors = Append(@, WriteErrorMsg(rcand[p].file_path, e))]
  /\ rpc' = [rpc EXCEPT ![p] = "done"]

\* the guard, then path.exists()
RCheck(p) ==
  /\ rpc[p] = "check"
  /\ IF IsProtected(rcand[p].file_path)
     THEN /\ rlists' = [rlists EXCEPT ![p].errors = Append(@, ProtectedMsg(rcand[p].file_path))]
          /\ rpc' = [rpc EXCEPT ![p] = "done"]
          /\ UNCHANGED <<file_existed, events>>
     ELSE /\ file_existed' = [file_existed EXCEPT ![p] = Exists(fs, Path(rcand[p].file_path))]
          /\ rpc' = [rpc EXCEPT ![p] = "mkdir"]
          /\ events' = Append(events, <<p, "check">>)
          /\ UNCHANGED rlists
  /\ UNCHANGED <<fs, xvars, wvars, svars, tvars, cvars, rcand>>

\* path.parent.mkdir(parents=True, exist_ok=True)
RMkdir(p) ==
  /\ rpc[p] = "mkdir"
  /\ LET made == Mkdir(fs, Parent(Path(rcand[p].file_path))) IN
       /\ fs' = made.fs
       /\ IF made.err # "" THEN RError(p, made.err)
          ELSE rpc' = [rpc EXCEPT ![p] = "open"] /\ UNCHANGED rlists
  /\ events' = Append(events, <<p, "mkdir">>)
  /\ UNCHANGED <<xvars, wvars, svars, tvars, cvars, rcand, file_existed>>

\* the run p after its open() gave o
Opened(p, o) ==
  /\ fs' = o.fs
  /\ IF o.err # "" THEN RError(p, o.err)
     ELSE rpc' = [rpc EXCEPT ![p] = "write"] /\ UNCHANGED rlists
  /\ events' = Append(events, <<p, IF o.err # "" THEN "open failed" ELSE "open">>)

\* open(path, 'w', encoding='utf-8')
ROpen(p) ==
  /\ rpc[p] = "open"
  /\ Opened(p, OpenTrunc(fs, Path(rcand[p].file_path)))
  /\ UNCHANGED <<xvars, wvars, svars, tvars, cvars, rcand, file_existed>>

\* f.write(content), the end of the with block, and the tracking
RWrite(p) ==
  /\ rpc[p] = "write"
  /\ fs' = FlushAt(fs, Loc(rcand[p].file_path), rcand[p].content)
  /\ rlists' = IF file_existed[p]
               THEN [rlists EXCEPT ![p].files_modified =
                                     Append(@, PathStr(Path(rcand[p].file_path)))]
               ELSE [rlists EXCEPT ![p].files_created =
                                     Append(@, PathStr(Path(rcand[p].file_path)))]
  /\ rpc' = [rpc EXCEPT ![p] = "done"]
  /\ events' = Append(events, <<p, "write">>)
  /\ UNCHANGED <<xvars, wvars, svars, tvars, cvars, rcand, file_existed>>

RStep(p) == RCheck(p) \/ RMkdir(p) \/ ROpen(p) \/ RWrite(p)

RNext == \E p \in Procs : RStep(p)

SpecRace == RInit /\ [][RNext]_vars

(***************************************************************************)
(* Properties of the workflow engine (Spec).                               *)
(***************************************************************************)
\* the context after the step recorded at trace[i]
After(i) == IF i < Len(trace) THEN trace[i + 1].before ELSE context

\* C3: run_workflow never raises and never stops in the middle: when the
\* collaborator of a step raises, the exception is caught in
\* execute_workflow_step, the step yields no result, the later steps are
\* attempted all the same and the run completes after the last step; an
\* unknown workflow name makes the run return with no step attempted.
C3_NeverAborts ==
  /\ wpc # "raised"
  /\ \A i \in 1..Len(trace) : trace[i].raised => trace[i].result = None
  /\ wpc = "running" => Len(trace) = step_i - 1 /\ step_i <= Len(steps) + 1
  /\ wpc = "completed" => Len(trace) = Len(steps)
  /\ wpc = "not_found" => trace = <<>> /\ context = None
  /\ wpc = "running" => ENABLED (RunStep \/ RunEnd)

\* a collaborator raised, the step after it called its agent, and the run
\* completed
C3_Witness ==
  /\ wpc = "completed"
  /\ \E i \in 1..(Len(trace) - 1) :
       /\ trace[i].raised
       /\ trace[i + 1].invoked /\ ~trace[i + 1].raised
       /\ trace[i + 1].result # None

\* C4: the steps of a run are attempted in the order of their declaration,
\* one after the other and each exactly once (the k-th attempt of the run is
\* the k-th declared step: nothing reordered, retried or taken up later), and
\* there are at most as many recorded step results as declared steps.
C4_DeclarationOrder ==
  /\ Len(trace) <= Len(steps)
  /\ \A k \in 1..Len(trace) :
       trace[k].step = k /\ trace[k].agent = steps[k].agent
  /\ wpc = "completed" => Len(trace) = Len(steps)
  /\ wpc \in {"running", "completed"} =>
       /\ Cardinality(DOMAIN context["workflow_results"])
            <= Cardinality({k \in 1..Len(trace) : trace[k].result # None})
       /\ Cardinality(DOMAIN context["workflow_results"]) <= Len(steps)

\* a completed run of three steps, the second of which yielded nothing while
\* the first and the third did
C4_Witness ==
  /\ wpc = "completed"
  /\ Len(trace) = 3
  /\ trace[1].result # None
  /\ trace[2].result = None
  /\ trace[3].result # None
  /\ Cardinality(DOMAIN context["workflow_results"]) = 2

\* the context keys the claim names for a role
C5Required(agent_name) ==
  IF agent_name = "project_manager" THEN {"user_requirement"}
  ELSE IF agent_name \in {"architect", "coder"} THEN {"specification"}
  ELSE {"specification", "code"}

\* C5: a step is skipped, that is execute_workflow_step returns None without
\* calling the agent and the engine goes on to the next step, whenever the
\* role of the step has no initialized agent or a context key the role needs
\* is absent (project_manager: user_requirement; architect, coder:
\* specification; tester, reviewer: specification and code).
C5_SkippedWithoutCall ==
  \A i \in 1..Len(trace) :
    (\/ trace[i].agent \notin agents
     \/ ~(C5Required(trace[i].agent) \subseteq DOMAIN trace[i].before))
    => /\ ~trace[i].invoked
       /\ trace[i].result = None
       /\ After(i) = trace[i].before
       /\ (wpc = "completed" \/ i < Len(trace) \/ step_i = i + 1)

\* a tester step that found the specification but no code was skipped, a
\* step whose role has no agent was skipped, and the run went on to complete
C5_Witness ==
  /\ wpc = "completed"
  /\ \E i, j \in 1..Len(trace) :
       /\ trace[i].agent = "tester"
       /\ trace[i].agent \in agents
       /\ "specification" \in DOMAIN trace[i].before
       /\ "code" \notin DOMAIN trace[i].before
       /\ ~trace[i].invoked
       /\ trace[j].agent \notin agents
       /\ ~trace[j].invoked

\* the context the claim's rules give after the result R of the step name
C6Expected(before, name, R) ==
  LET set == {k \in {"specification", "architecture"} : k \in DOMAIN R}
             \cup (IF "code" \in DOMAIN R \/ "summary" \in DOMAIN R THEN {"code"} ELSE {})
  IN [k \in DOMAIN before \cup set |->
        IF k = "workflow_results"
        THEN [n \in DOMAIN before[k] \cup {name} |-> IF n = name THEN R ELSE before[k][n]]
        ELSE IF k \in set
             THEN (IF k = "code"
                   THEN (IF "code" \in DOMAIN R THEN R["code"] ELSE R["summary"])
                   ELSE R[k])
             ELSE before[k]]

\* C6: after a step returned the result R the context is the one before it
\* with workflow_results[step name] = R, specification = R.specification and
\* architecture = R.architecture where R has them, code = R.code where R has
\* it and else R.summary where R has that, and every other key as it was; a
\* step without a result leaves the context, workflow_results included, as it
\* was.
C6_ContextMerge ==
  \A i \in 1..Len(trace) :
    IF trace[i].result = None
    THEN After(i) = trace[i].before
    ELSE After(i) = C6Expected(trace[i].before, steps[i].name, trace[i].result)

\* a coder step returned a summary and no code key, the context took the
\* summary as the code and kept the specification, and a later step without
\* a result left the context alone
C6_Witness ==
  \E i \in 1..(Len(trace) - 1) :
    /\ trace[i].agent = "coder"
    /\ trace[i].result # None
    /\ "code" \notin DOMAIN trace[i].result
    /\ "code" \notin DOMAIN trace[i].before
    /\ After(i)["code"] = trace[i].result["summary"]
    /\ After(i)["specification"] = trace[i].before["specification"]
    /\ steps[i].name \in DOMAIN After(i)["workflow_results"]
    /\ trace[i + 1].result = None
    /\ After(i + 1) = After(i)

\* the steps of the scenario: analyze, then implement
AnalyzeImplement ==
  <<[name |-> "analyze", agent |-> "project_manager"],
    [name |-> "implement", agent |-> "coder"]>>

\* C14: in a run of [analyze, implement] whose analyze step fails, implement
\* is attempted exactly if the specification is in the context already and
\* skipped otherwise, the run does not raise, and what the run returns is a
\* report that lists one failure, the failed analyze step.
C14_ReportListsFailure ==
  (wpc = "completed" /\ steps = AnalyzeImplement /\ agents = Roles /\ trace[1].raised)
  => /\ trace[2].invoked <=> "specification" \in DOMAIN trace[2].before
     /\ "failures" \in DOMAIN ReturnValue(trace)
     /\ ReturnValue(trace)["failures"] = <<"analyze">>

\* the context a run starts with
Fresh(input) ==
  [k \in {"user_requirement", "workflow_results"} |->
     IF k = "user_requirement" THEN input ELSE [n \in {} |-> <<>>]]

\* C15: every run_workflow call starts from a fresh context that holds the
\* request of the call under user_requirement, an empty workflow_results and
\* nothing else: no specification, architecture, code or step result of an
\* earlier run is there when the first step of a run is taken.
C15_FreshContext ==
  /\ (wpc = "running" /\ trace = <<>>) => context = Fresh(input_data)
  /\ trace # <<>> => trace[1].before = Fresh(input_data)

\* the second run has taken its first step, from a fresh context, after the
\* coder of the first run had written app.py
C15_Witness ==
  /\ runs = 2
  /\ Len(trace) = 1
  /\ trace[1].agent = "project_manager"
  /\ trace[1].invoked
  /\ trace[1].before = Fresh(input_data)
  /\ DOMAIN trace[1].before = {"user_requirement", "workflow_results"}
  /\ Loc(app_py) \in DOMAIN fs
  /\ fs[Loc(app_py)].content = <<"B">>

\* a step of the run was taken
Stepped == Len(trace') = Len(trace) + 1

\* the coder was called in that step and returned
CoderRan ==
  /\ Stepped
  /\ trace'[Len(trace')].agent = "coder"
  /\ trace'[Len(trace')].invoked
  /\ ~trace'[Len(trace')].raised

\* C16: the engine runs the extraction for the coder role alone: a step of
\* another role, or a coder step that is skipped or fails, writes no file
\* whatever text the agent returned, and its result carries no extraction
\* summary; a coder step that runs extracts from the returned text exactly
\* once.
C16_OnlyCoderExtracts ==
  [][ Stepped =>
        IF CoderRan
        THEN fs' = extract_and_execute(fs, trace'[Len(trace')].result["summary"]).fs
        ELSE /\ fs' = fs
             /\ "extraction_summary" \notin DOMAIN trace'[Len(trace')].result ]_vars

test_app_py == <<"test_app", ".py">>

\* the tester returned a text with a write_file declaration and no file was
\* written for it, while the coder's declaration of app.py was written
C16_Witness ==
  /\ fs0 = EmptyProject
  /\ \E i, j \in 1..Len(trace) :
       /\ trace[i].agent = "coder"
       /\ trace[i].invoked /\ ~trace[i].raised
       /\ trace[j].agent = "tester"
       /\ trace[j].invoked /\ ~trace[j].raised
       /\ trace[j].result["summary"] = Decl1(test_app_py, <<"T">>)
  /\ Loc(app_py) \in DOMAIN fs
  /\ Loc(test_app_py) \notin DOMAIN fs

\* the result R of the step carries the extraction x
Carries(R, x) ==
  /\ R["files_created"] = x.files_created
  /\ R["files_modified"] = x.files_modified
  /\ R["extraction_summary"] = _generate_summary(x)
  /\ DOMAIN R = DOMAIN implement_feature(R["summary"]) \cup {"extraction_summary"}
  /\ R["testing_notes"] = implement_feature(R["summary"])["testing_notes"]

\* C17: the result of a coder step that runs has as files_created and
\* files_modified exactly the lists of the extraction (in place of what the
\* agent scraped from its prose), the summary of the extraction under
\* extraction_summary, and the other keys as the agent returned them.
C17_ExtractionMerged ==
  [][ CoderRan =>
        \A x \in {extract_and_execute(fs, trace'[Len(trace')].result["summary"])} :
          Carries(trace'[Len(trace')].result, x) ]_vars

\* a coder result that lists app.py as created and carries the summary of
\* the extraction
C17_Witness ==
  \E i \in 1..Len(trace) :
    /\ trace[i].agent = "coder"
    /\ trace[i].result # None
    /\ trace[i].result["files_created"] = <<app_py>>
    /\ trace[i].result["files_modified"] = <<>>
    /\ trace[i].result["files_created"] # implement_feature(<<>>)["files_created"]
    /\ trace[i].result["extraction_summary"]
         = << <<"Created ", "1", " file(s):">>, <<"  - ">> \o app_py >>

(***************************************************************************)
(* Properties of the extraction (SpecExtract).                             *)
(***************************************************************************)
Range(f) == {f[i] : i \in DOMAIN f}

\* the text e holds the path p
Names(e, p) == \E i \in 1..(Len(e) - Len(p) + 1) : SubSeq(e, i, i + Len(p) - 1) = p

\* the declared path equals an entry of the protected set or ends with one
MatchesProtectedSet(file_path) ==
  \E pf \in PROTECTED_FILES : file_path = pf \/ EndsWith(file_path, pf)

\* the _write_file call for the candidate at idx is being made
Writing == xpc = "writing" /\ idx <= Len(cands) /\ idx' = idx + 1

\* the files of a file system, with what they hold
Files(f) == {l \in DOMAIN f : f[l].kind = "file"}

\* C1: a candidate whose declared path equals a protected entry or ends with
\* one is never written and never listed in files_created or files_modified;
\* its _write_file call leaves the file system alone and appends one error
\* entry that names the path.
C1_ProtectedNeverWritten ==
  [][ (Writing /\ MatchesProtectedSet(cands[idx].file_path))
      => /\ fs' = fs
         /\ files_created' = files_created
         /\ files_modified' = files_modified
         /\ Len(errors') = Len(errors) + 1
         /\ SubSeq(errors', 1, Len(errors)) = errors
         /\ Names(errors'[Len(errors')], cands[idx].file_path) ]_vars

\* a candidate that ends with a protected entry without being one was
\* processed in a project that holds files: nothing changed, the error is there
C1_Witness ==
  /\ xpc = "writing"
  /\ idx > 1
  /\ MatchesProtectedSet(cands[idx - 1].file_path)
  /\ cands[idx - 1].file_path \notin PROTECTED_FILES
  /\ fs = fs0
  /\ fs0 = OldProject
  /\ files_created = <<>> /\ files_modified = <<>>
  /\ \E i \in 1..Len(errors) : Names(errors[i], cands[idx - 1].file_path)

Declares(cs, p) == \E i \in 1..Len(cs) : cs[i].file_path = p

LastOf(cs, p) == cs[MaxOf({i \in 1..Len(cs) : cs[i].file_path = p})]

\* the last-pooled occurrence of the path p among the candidates s1, s2, s3
\* of the three strategies: the last one of the last strategy that declares it
LastPooled(s1, s2, s3, p) ==
  IF Declares(s3, p) THEN LastOf(s3, p)
  ELSE IF Declares(s2, p) THEN LastOf(s2, p)
  ELSE LastOf(s1, p)

Listed(p) == PathStr(Path(p)) \in Range(files_created) \cup Range(files_modified)

\* what the file named p holds
ContentAt(f, p) == f[Resolve(f, Path(p)).loc].content

\* the strategies that declare the path p in the text
StrategiesOf(text, p) ==
  {k \in 1..3 : Declares(<<_extract_write_file_calls(text),
                           _extract_code_blocks_with_paths(text),
                           _extract_file_sections(text)>>[k], p)}

\* C2: when a text declares a path more than once, the candidates are applied
\* in pool order and the file written for the path ends up holding the content
\* of the last-pooled occurrence alone (strategy 1, then 2, then 3), not a
\* merge of the occurrences and not what the file held before.
C2_LastPooledWins ==
  xpc = "done" =>
    LET s1 == _extract_write_file_calls(agent_output)
        s2 == _extract_code_blocks_with_paths(agent_output)
        s3 == _extract_file_sections(agent_output)
    IN \A p \in {cands[i].file_path : i \in 1..Len(cands)} :
         Listed(p) => ContentAt(fs, p) = LastPooled(s1, s2, s3, p).content

\* app.py is declared by two strategies with different contents, and holds
\* the later one
C2_Witness ==
  /\ xpc = "done"
  /\ Cardinality(StrategiesOf(agent_output, app_py)) = 2
  /\ \E i, j \in 1..Len(cands) :
       /\ i < j
       /\ cands[i].file_path = app_py /\ cands[j].file_path = app_py
       /\ cands[i].content # cands[j].content
  /\ Listed(app_py)
  /\ ContentAt(fs, app_py) = cands[Len(cands)].content

\* the _write_file call for an unprotected candidate fails: its path comes
\* onto neither list
Fails ==
  /\ Writing
  /\ ~MatchesProtectedSet(cands[idx].file_path)
  /\ files_created' = files_created
  /\ files_modified' = files_modified

\* C7: a candidate whose write fails with a file system error gets an error
\* entry that names it, the extraction goes on with the remaining candidates
\* (every candidate of the pool ends up on exactly one of the three lists),
\* and the files written before stay as they were written: no rollback.
C7_FaultIsolated ==
  [][ /\ Fails =>
        /\ Len(errors') = Len(errors) + 1
        /\ SubSeq(errors', 1, Len(errors)) = errors
        /\ Names(errors'[Len(errors')], cands[idx].file_path)
        /\ xpc' = "writing"
        /\ \A l \in Files(fs) : l \in Files(fs') /\ fs'[l] = fs[l]
      /\ Writing =>
        Len(files_created') + Len(files_modified') + Len(errors') = idx
      /\ (xpc = "writing" /\ xpc' = "done") =>
        Len(files_created) + Len(files_modified) + Len(errors) = Len(cands) ]_vars

\* the first candidate failed on the file app.py standing where it needs a
\* directory, the next one was written all the same, into that very file
C7_Witness ==
  /\ xpc = "done"
  /\ Len(cands) = 2
  /\ errors = <<WriteErrorMsg(cands[1].file_path, "FileExistsError")>>
  /\ files_modified = <<app_py>>
  /\ ContentAt(fs, app_py) = cands[2].content
  /\ fs[Loc(main_py)] = fs0[Loc(main_py)]

InRoot(l) == Len(l) >= Len(Cwd) /\ SubSeq(l, 1, Len(Cwd)) = Cwd

\* the declared path leaves the project root: it is absolute or climbs with ..
Escapes(file_path) ==
  Path(file_path).abs \/ <<"..">> \in Range(Path(file_path).parts)

\* C8: every candidate path is resolved against the project root, and a
\* candidate whose path resolves outside the root is rejected: an error is
\* recorded for it and no file is written outside the root.
C8_OutsideRootRejected ==
  /\ \A l \in Files(fs) : InRoot(l)
  /\ xpc = "done" =>
       \A i \in 1..Len(cands) :
         Escapes(cands[i].file_path) =>
           \E k \in 1..Len(errors) : Names(errors[k], cands[i].file_path)

\* C9: a text that is one explicit-call declaration with a triple-quoted
\* payload, for the unprotected app.py that does not exist yet, makes exactly
\* one write: files_created = [app.py], files_modified and errors are empty,
\* and app.py holds the trimmed payload print('hi'); the two payload-delimiter
\* variants never both apply to the one declaration.
C9_OneDeclarationOneWrite ==
  (xpc = "done" /\ extractions = 1 /\ fs0 = EmptyProject
     /\ agent_output = Decl3(app_py, print_hi))
  => /\ Len(cands) = 1
     /\ files_created = <<app_py>>
     /\ files_modified = <<>>
     /\ errors = <<>>
     /\ ContentAt(fs, app_py) = print_hi

\* the texts that are one declaration of .env, in a form the extractor knows
EnvTexts == {Decl3(dot_env, <<"K">>), Decl1(dot_env, <<"K">>)}

\* C10: a text that is one declaration of .env, in whichever form, writes
\* nothing (files_created and files_modified are empty, the file system is as
\* it was) and leaves exactly one error entry, which names .env.
C10_EnvOneError ==
  (xpc = "done" /\ agent_output \in EnvTexts)
  => /\ files_created = <<>>
     /\ files_modified = <<>>
     /\ fs = fs0
     /\ Len(errors) = 1
     /\ Names(errors[1], dot_env)

\* the paths the current extraction wrote, as it lists them
WrittenPaths == Range(files_created) \cup Range(files_modified)

\* C11: extracting the same text a second time leaves every file with the
\* content it had after the first time (the file system is the one the
\* second extraction started on) and classifies every path it writes as
\* modified, none as created; checked from the empty project and from one
\* that holds files.
C11_SecondRunModifies ==
  (xpc = "done" /\ extractions >= 2)
  => /\ fs = fs0
     /\ files_created = <<>>
     /\ \A i \in 1..Len(cands) :
          (\/ PathStr(Path(cands[i].file_path)) \in Range(files_modified)
           \/ \E k \in 1..Len(errors) : Names(errors[k], cands[i].file_path))

\* the second extraction of a text on what was an empty project (every file
\* there is one the text wrote): two files were written again, as modified
C11_Witness ==
  /\ xpc = "done"
  /\ extractions = 2
  /\ files_created = <<>>
  /\ Cardinality(Range(files_modified)) = 2
  /\ \A l \in Files(fs) : \E p \in Range(files_modified) : Resolve(fs, Path(p)).loc = l
  /\ fs = fs0

\* the _write_file call for the candidate at idx succeeds: its path comes
\* onto one of the lists
Succeeds ==
  /\ Writing
  /\ Len(files_created') + Len(files_modified') = Len(files_created) + Len(files_modified) + 1

\* there is something at the place the path names
Present(f, p) ==
  LET r == Resolve(f, Path(p)) IN r.err = "" /\ r.loc \in DOMAIN f

\* C13: a successful write is classified by the existence of the file right
\* before it: the path goes to the end of files_modified if the file was
\* there and to the end of files_created if not, the other list stays, and
\* the file then holds the new content in place of what it held.
C13_KindByExistence ==
  [][ Succeeds =>
        LET p == cands[idx].file_path
            listed == PathStr(Path(p))
        IN /\ IF Present(fs, p)
              THEN /\ files_modified' = Append(files_modified, listed)
                   /\ files_created' = files_created
              ELSE /\ files_created' = Append(files_created, listed)
                   /\ files_modified' = files_modified
           /\ errors' = errors
           /\ ContentAt(fs', p) = cands[idx].content ]_vars

\* app.py held OLD, was overwritten and listed as modified, and a file that
\* was not there was listed as created by the same extraction
C13_Witness ==
  /\ fs0 = OldProject
  /\ xpc = "done"
  /\ files_modified = <<app_py>>
  /\ Len(files_created) = 1
  /\ ContentAt(fs, app_py) # <<"OLD">>
  /\ ContentAt(fs0, app_py) = <<"OLD">>

\* C18: the writes one extraction reports are deduplicated: a path is on
\* files_created and files_modified together at most once, so a path declared
\* several times is neither on both lists nor twice on one.
C18_Deduplicated ==
  xpc = "done" =>
    LET all == files_created \o files_modified IN
    \A i, j \in 1..Len(all) : all[i] = all[j] => i = j

(***************************************************************************)
(* Properties of the declaration forms (SpecForms).                        *)
(***************************************************************************)
\* the normalized content of a payload: trimmed, unescaped, fence lines off
Normal(c) ==
  IF c = escaped THEN <<"x", DQ, "y">> ELSE <<"x">>

\* the texts that declare app.py with the payload c
DeclaringTexts(c) ==
  {Decl3(app_py, c), Decl1(app_py, c)}
  \cup (IF c = fenced THEN {} ELSE {Block(app_py, c), Section(app_py, c)})

\* C12: whichever of the three strategies recognises a candidate, what is
\* written, and read back from the path, is the normalized content:
\* surrounding whitespace trimmed, escaped quotes unescaped, a fence line
\* that came along at the start or the end stripped.
C12_NormalizedWhateverStrategy ==
  xpc = "done" =>
    \A c \in {plain, padded, escaped, fenced} :
      agent_output \in DeclaringTexts(c)
      => Present(fs, app_py) /\ ContentAt(fs, app_py) = Normal(c)

\* C19: strategy 2 gives a candidate for every fenced block whose first line
\* is a comment with a file path and strategy 3 for every heading with a path
\* in backticks followed by a closed fenced block, whatever the extension of
\* the file and the language tag of the fence: README.md, .env.example and
\* .js files are recognised like .py files.
C19_AnyExtensionAnyTag ==
  xpc = "done" =>
    \A lang \in LangTags, P \in PromptPaths :
      agent_output \in {BlockL(lang, P, plain), SectionL(lang, P, plain)}
      => \E i \in 1..Len(cands) : cands[i].file_path = P /\ cands[i].content = plain

(***************************************************************************)
(* Two runs in one project root (SpecRace)                                 *)
(***************************************************************************)
RLoc(p) == Loc(rcand[p].file_path)

\* the place of the call k of the run p in the order of the calls, 0 if the
\* run has not made it
EventAt(p, k) ==
  IF \E i \in 1..Len(events) : events[i] = <<p, k>>
  THEN CHOOSE i \in 1..Len(events) : events[i] = <<p, k>>
  ELSE 0

\* the runs whose write to the location landed
Writers(loc) == {p \in Procs : RLoc(p) = loc /\ EventAt(p, "write") # 0}

\* the run whose write to the location landed last
LastWriter(loc) ==
  CHOOSE p \in Writers(loc) : \A q \in Writers(loc) : EventAt(q, "write") <= EventAt(p, "write")

RListed(p, list) == PathStr(Path(rcand[p].file_path)) \in Range(list)

\* C20: two runs that extract at the same time in the same project root are
\* not kept apart.  A run in the middle of _write_file never makes the other
\* wait; a run finds the path there exactly if the project held it at the
\* start or the other run had opened it before this run's existence check,
\* whatever happened between the check and its own write, and lists the path
\* as Created or Modified by that finding; and once both are through, the
\* file starts with the content of the write that landed last, and is that
\* content when no other write to it was longer.
C20_RunsNotExcluded ==
  /\ \A p \in Procs : rpc[p] \in {"check", "mkdir", "open", "write"} => ENABLED RStep(p)
  /\ \A p \in Procs :
       EventAt(p, "check") # 0 =>
         /\ file_existed[p] <=>
              \/ RLoc(p) \in DOMAIN fs0
              \/ \E q \in Procs \ {p} :
                   /\ RLoc(q) = RLoc(p)
                   /\ EventAt(q, "open") # 0
                   /\ EventAt(q, "open") < EventAt(p, "check")
         /\ EventAt(p, "write") # 0 =>
              /\ RListed(p, rlists[p].files_created) <=> ~file_existed[p]
              /\ RListed(p, rlists[p].files_modified) <=> file_existed[p]
  /\ (\A p \in Procs : rpc[p] = "done") =>
       \A p \in Procs :
         Writers(RLoc(p)) # {} =>
           LET w == LastWriter(RLoc(p)) IN
             /\ StartsWith(fs[RLoc(p)].content, rcand[w].content)
             /\ (\A q \in Writers(RLoc(p)) : Len(rcand[q].content) <= Len(rcand[w].content))
                => fs[RLoc(p)].content = rcand[w].content

\* both runs wrote the same path, each of them lists it as Created, and the
\* file holds the content of the one whose write landed last
C20_Witness ==
  /\ \A p \in Procs : rpc[p] = "done"
  /\ RLoc("run1") = RLoc("run2")
  /\ rcand["run1"].content # rcand["run2"].content
  /\ \A p \in Procs : RListed(p, rlists[p].files_created) /\ rlists[p].files_modified = <<>>
  /\ EventAt("run1", "check") < EventAt("run2", "open")
  /\ EventAt("run2", "check") < EventAt("run1", "open")
  /\ fs[RLoc("run1")].content = rcand[LastWriter(RLoc("run1"))].content

(***************************************************************************)
(* The protected-path guard (SpecGuard)                                    *)
(***************************************************************************)
\* the _write_file call was turned down by the guard
Rejected ==
  /\ errors' = Append(errors, ProtectedMsg(cands[idx].file_path))
  /\ fs' = fs
  /\ files_created' = files_created
  /\ files_modified' = files_modified

domain_py == <<"src", SL, "do">> \o main_py

\* C21: the guard turns a declared path down exactly if the path, with every
\* backslash replaced by '/', is an entry of the protected set or ends with
\* one as a string, letter case kept; the match does not stop at the
\* boundary of a path component, so src/domain.py and dev-requirements.txt
\* are turned down.
C21_GuardIsStringSuffix ==
  [][ Writing =>
        /\ Rejected <=> MatchesProtectedSet(Replace(cands[idx].file_path, <<BS>>, <<SL>>))
        /\ cands[idx].file_path \in {domain_py, <<"dev-">> \o requirements_txt} => Rejected
        /\ cands[idx].file_path \in {<<"Main", ".py">>, <<"main", ".PY">>} => ~Rejected ]_vars

\* src/domain.py was declared in a project that holds files: it was turned
\* down as protected and nothing was written
C21_Witness ==
  /\ xpc = "done"
  /\ agent_output = Decl1(domain_py, <<"X">>)
  /\ cands # <<>>
  /\ errors = <<ProtectedMsg(domain_py)>>
  /\ fs = fs0
  /\ fs0 = OldProject
  /\ ~Present(fs, domain_py)

\* the files a step wrote: the new ones and the ones whose content changed
Changed == {l \in Files(fs') : l \notin DOMAIN fs \/ fs[l] # fs'[l]}

\* C22: the file a _write_file call opens for writing is never a protected
\* one: no file whose location equals or ends with an entry of the
\* protected set is made or changed, also when the declared path ends with
\* a separator, as in main.py/ or .env/ or main.py/. .
C22_WrittenFileNotProtected ==
  [][ Writing => \A l \in Changed : ~MatchesProtectedSet(Join(l, SL)) ]_vars

(***************************************************************************)
(* The bookkeeping of an extraction (SpecExtract)                          *)
(***************************************************************************)
Entries == Len(files_created) + Len(files_modified) + Len(errors)

\* the list grew by one entry at its end
GrewByOne(old, new) == Len(new) = Len(old) + 1 /\ SubSeq(new, 1, Len(old)) = old

\* C23: every _write_file call appends exactly one entry to exactly one of
\* files_created, files_modified and errors, and when the extraction has
\* returned the three lists hold together as many entries as candidates
\* were pooled: no candidate is dropped without a trace, none counted twice.
C23_OneEntryPerCandidate ==
  [][ /\ Writing =>
           \/ /\ GrewByOne(files_created, files_created')
              /\ files_modified' = files_modified /\ errors' = errors
           \/ /\ GrewByOne(files_modified, files_modified')
              /\ files_created' = files_created /\ errors' = errors
           \/ /\ GrewByOne(errors, errors')
              /\ files_created' = files_created /\ files_modified' = files_modified
      /\ xpc' = "done" =>
           Len(files_created') + Len(files_modified') + Len(errors') = Len(cands') ]_vars

\* an extraction of two candidates returned: one was written, the other
\* failed in the write and left its one error entry
C23_Witness ==
  /\ xpc = "done"
  /\ Len(cands) = 2
  /\ Entries = 2
  /\ Len(errors) = 1
  /\ Names(errors[1], <<"Error writing ">>)
  /\ Len(files_created) + Len(files_modified) = 1

(***************************************************************************)
(* The header-section strategy (SpecSections)                              *)
(***************************************************************************)
\* the line is a heading that bears a path
PathHeading(line) == IsHeader(line) /\ Search(FilenamePattern, line, 1).ok

HeadingPath(line) == Group(line, Search(FilenamePattern, line, 1), 1)

\* the iteration at sec_i made a _write_file call
Wrote == xpc = "sections" /\ Len(cands') = Len(cands) + 1

\* C24: a fenced block goes to the path of the nearest path-bearing heading
\* before it: when a heading with a path has no fenced block before the next
\* heading with a path, the block behind the second heading is written to
\* the path of the second, which is not skipped.
C24_NearestPrecedingHeading ==
  [][ Wrote =>
        LET j == ScanFence(lines, sec_i + 1, FALSE)
            h == MaxOf({n \in sec_i..(j - 1) : PathHeading(lines[n])})
        IN cands'[Len(cands')].file_path = HeadingPath(lines[h]) ]_vars

\* the heading at line i is followed by an opening fence that no later line
\* closes
Unterminated(i) ==
  LET j == ScanFence(lines, i + 1, FALSE) IN
    /\ j <= Len(lines)
    /\ \A k \in (j + 1)..Len(lines) : Strip(lines[k]) # Fence

\* C28: _extract_file_sections terminates on every text: every iteration of
\* its loop moves the line index forward, never past the end of the text by
\* more than the one step that ends the loop; an iteration at a heading
\* whose fenced block is never closed writes nothing; and a call that
\* started returns.
C28_SectionsTerminate ==
  /\ [][ Scanning => sec_i' > sec_i /\ sec_i' <= Len(lines) + 1 ]_vars
  /\ [][ (Scanning /\ PathHeading(lines[sec_i]) /\ Unterminated(sec_i))
         => /\ fs' = fs /\ cands' = cands /\ errors' = errors
            /\ files_created' = files_created /\ files_modified' = files_modified
            /\ sec_i' = Len(lines) + 1 ]_vars
  /\ (xpc = "sections") ~> (xpc = "done" /\ sec_i = Len(lines) + 1)

\* the call on a heading with a block that is never closed has returned:
\* the index stands behind the last line and nothing was written
C28_Witness ==
  /\ xpc = "done"
  /\ agent_output = Join(<<Heading(app_py), Unclosed(<<"D">>)>>, NL)
  /\ sec_i = Len(lines) + 1
  /\ Len(lines) = 3
  /\ cands = <<>>
  /\ fs = fs0
  /\ Entries = 0

(***************************************************************************)
(* The code and the specification of a run (Spec)                          *)
(***************************************************************************)
\* the steps so far whose result carries code or a summary
Carriers(n) ==
  {k \in 1..n : "code" \in DOMAIN trace[k].result \/ "summary" \in DOMAIN trace[k].result}

CodeOf(R) == IF "code" \in DOMAIN R THEN R["code"] ELSE R["summary"]

\* what the claim says context['code'] is once the first n steps are done
LatestCode(c, n) ==
  IF Carriers(n) = {} THEN "code" \notin DOMAIN c
  ELSE "code" \in DOMAIN c /\ c["code"] = CodeOf(trace[MaxOf(Carriers(n))].result)

\* C25: at every point of a run context['code'] is the code, else the
\* summary, of the latest step that yielded a result with one of the two
\* keys; so when coder, tester and reviewer run one after the other, the
\* reviewer is called with the summary of the tester as its code, not with
\* what the coder wrote.
C25_CodeIsLatestSummary ==
  wpc \in {"running", "completed"} =>
    /\ LatestCode(context, Len(trace))
    /\ \A k \in 1..Len(trace) :
         /\ LatestCode(trace[k].before, k - 1)
         /\ (trace[k].agent = "reviewer" /\ trace[k].invoked)
            => trace[k].args[1] = CodeOf(trace[MaxOf(Carriers(k - 1))].result)
         /\ (/\ k >= 3
             /\ trace[k].agent = "reviewer" /\ trace[k].invoked
             /\ trace[k - 1].agent = "tester" /\ trace[k - 1].result # None
             /\ trace[k - 2].agent = "coder" /\ trace[k - 2].result # None)
            => trace[k].args[1] = trace[k - 1].result["summary"]

\* coder, tester and reviewer ran in this order: the reviewer got the
\* summary of the tester, which is not what the coder returned
C25_Witness ==
  /\ wpc = "completed"
  /\ \E k \in 3..Len(trace) :
       /\ trace[k].agent = "reviewer" /\ trace[k].invoked /\ trace[k].result # None
       /\ trace[k - 1].agent = "tester" /\ trace[k - 1].result # None
       /\ trace[k - 2].agent = "coder" /\ trace[k - 2].result # None
       /\ trace[k].args[1] = trace[k - 1].result["summary"]
       /\ trace[k].args[1] # trace[k - 2].result["summary"]

\* no project_manager step of the run has yielded a result so far
NoAnalysisYet ==
  \A j \in 1..Len(trace) : ~(trace[j].agent = "project_manager" /\ trace[j].result # None)

\* C26: within a run only a project_manager step that yields a result puts
\* the specification into the context; as long as none has, a step of the
\* architect, the coder, the tester or the reviewer does not call its agent
\* and writes no file, and the run goes on to its end all the same.
C26_SpecificationOnlyFromAnalysis ==
  [][ Stepped =>
        /\ ("specification" \in DOMAIN context' /\ "specification" \notin DOMAIN context)
           => /\ trace'[Len(trace')].agent = "project_manager"
              /\ trace'[Len(trace')].result # None
        /\ NoAnalysisYet => "specification" \notin DOMAIN context
        /\ (NoAnalysisYet /\ trace'[Len(trace')].agent # "project_manager")
           => /\ ~trace'[Len(trace')].invoked
              /\ trace'[Len(trace')].result = None
              /\ fs' = fs
              /\ context' = context
              /\ wpc' = "running"
              /\ step_i' = step_i + 1 ]_vars

\* a run of three steps for the coder, the tester and the reviewer, in some
\* order and all of them initialized, completed: none was called, the files
\* are as they were
C26_Witness ==
  /\ wpc = "completed"
  /\ Len(trace) = 3
  /\ agents = Roles
  /\ {trace[k].agent : k \in 1..3} = {"coder", "tester", "reviewer"}
  /\ \A k \in 1..3 : ~trace[k].invoked /\ trace[k].result = None
  /\ "specification" \notin DOMAIN context
  /\ runs = 1
  /\ fs = fs0

(***************************************************************************)
(* The write_file tool of the agents (SpecTool)                            *)
(***************************************************************************)
ToolCalled == tool_calls' = tool_calls + 1

\* C27: the write_file tool the agents are given does not overwrite a
\* protected file either: a call whose file_path is an entry of the
\* protected set or ends with one leaves every protected file of the project
\* as it was.
C27_ToolKeepsProtected ==
  [][ (ToolCalled /\ MatchesProtectedSet(tool_args'.file_path))
      => \A l \in Files(fs) :
           MatchesProtectedSet(Join(l, SL)) => l \in Files(fs') /\ fs'[l] = fs[l] ]_vars

(***************************************************************************)
(* The code editor server (SpecEditor)                                     *)
(***************************************************************************)
\* the locations a call made, removed or changed
Touched ==
  {l \in DOMAIN fs \cup DOMAIN fs' :
     l \notin DOMAIN fs \/ l \notin DOMAIN fs' \/ fs[l] # fs'[l]}

\* C29: _get_full_path returns only locations inside the project root, so a
\* call of the code editor touches nothing outside the root: every location
\* it makes or changes is the root or below it, also for a path into a
\* sibling directory whose name starts with the name of the root.
C29_EditorStaysInRoot ==
  [][ ToolCalled => \A l \in Touched : InRoot(l) ]_vars

(***************************************************************************)
(* The coder with Aider (SpecAider)                                        *)
(***************************************************************************)
\* the coder was called with Aider enabled
AiderTried == coder_calls' = coder_calls + 1 /\ coder_args'.use_aider

\* Aider did not succeed: the tool raised or reported success = False
AiderFailed(o) == o.aider.raises \/ ~o.aider.result.success

\* the text-based generation alone, for the same answer of the model
TextOnly(a) == CoderImplementFeature(FALSE, a.tool, a.b)

\* C30: with Aider enabled, when the tool reports success = False (a
\* non-zero exit, or a timeout or a missing executable, which become
\* returncode -1) or raises, implement_feature runs the text-based
\* generation after it and returns what that generation returns, a result
\* with a summary; an AiderTool never raises; and when Aider succeeded the
\* text-based generation is not run and the summary is Aider's output.
C30_AiderFallsBack ==
  [][ AiderTried =>
        /\ coder_args'.tool.kind = "AiderTool" =>
             /\ ~coder_out'.aider.raises
             /\ coder_args'.tool.run.kind \in {"TimeoutExpired", "FileNotFoundError"}
                  => _run_aider(coder_args'.tool.run).returncode = -1
             /\ (coder_args'.tool.run.kind # "exit" \/ coder_args'.tool.run.returncode # 0)
                  => ~coder_out'.aider.result.success
        /\ AiderFailed(coder_out') =>
             /\ coder_out'.calls = <<"aider", "text">>
             /\ coder_out'.exc = TextOnly(coder_args').exc
             /\ coder_out'.result = TextOnly(coder_args').result
             /\ ~coder_args'.b.raises =>
                  /\ ~coder_out'.exc
                  /\ "summary" \in DOMAIN coder_out'.result
                  /\ coder_out'.result.summary = coder_args'.b.text
        /\ ~AiderFailed(coder_out') =>
             /\ coder_out'.calls = <<"aider">>
             /\ ~coder_out'.exc
             /\ coder_out'.result.summary = coder_out'.aider.result.output ]_vars

\* Aider timed out and the text-based generation answered in its place
C30_Witness ==
  /\ coder_calls > 0
  /\ coder_args.use_aider
  /\ coder_args.tool.kind = "AiderTool"
  /\ coder_args.tool.run.kind = "TimeoutExpired"
  /\ coder_out.calls = <<"aider", "text">>
  /\ ~coder_out.exc
  /\ coder_out.result.summary = Decl1(app_py, <<"B">>)

=============================================================================
